---- MODULE Spec2Model ----
(***************************************************************************)
(* Model of the diff_utility comparison engine (src/src/diff_utility/      *)
(* diff.py): normalize_line, _tokenize, annotate_changes and diff_lines,   *)
(* together with the part of difflib.SequenceMatcher they call             *)
(* (find_longest_match, get_matching_blocks, get_opcodes).                 *)
(*                                                                         *)
(* A string is a sequence of one-character strings; a list of lines is a   *)
(* sequence of strings.  Indexes and half-open ranges are Python's         *)
(* (0-based), so a[i] of the source is At(a, i) here.                      *)
(***************************************************************************)
EXTENDS Integers, Sequences, FiniteSets, TLC

VARIABLES
    lines1,     \* diff_lines: argument lines1 (File A)
    lines2,     \* diff_lines: argument lines2 (File B)
    scenario,   \* how the caller derived lines2 / line2 from lines1 / line1
    opcodes,    \* diff_lines: matcher.get_opcodes() over the normalised lines
    blocks,     \* diff_lines: per emitted block, the indexes (i, j) it renders
    output,     \* diff_lines: the returned list of output lines
    line1,      \* annotate_changes: argument line1
    line2,      \* annotate_changes: argument line2
    tokens1,    \* annotate_changes: _tokenize(line1)
    tokens2,    \* annotate_changes: _tokenize(line2)
    tokOpcodes, \* annotate_changes: matcher.get_opcodes() over the raw tokens
    result,     \* annotate_changes: the list of rendered tokens before the join
    annotated,  \* annotate_changes: the returned string
    normalized, \* normalize_line: the returned string, for the argument line1
    renormalized, \* normalize_line: the returned string, for normalized
    equalNorm,  \* lines_equal_norm(line1, line2)
    equalNormRev, \* lines_equal_norm(line2, line1)
    file1,      \* diff_files: the text of the file at path1
    file2,      \* diff_files: the text of the file at path2
    text,       \* diff_files: the returned string
    otherLines1, \* diff_lines, a second call: argument lines1
    otherLines2, \* diff_lines, a second call: argument lines2
    otherBlocks, \* diff_lines, a second call: the blocks it emits
    otherOutput, \* diff_lines, a second call: the returned list
    raw,        \* read_lines: the bytes of the file at path
    readLines,  \* read_lines: the returned list of lines
    readError,  \* read_lines: the exception raised, "none" if it returned
    args,       \* main: the namespace parse_args returned
    fs,         \* main: per path, the file system object found there
    reads,      \* main: the paths opened for reading, in order
    written,    \* main: per path, the text write_text wrote there
    stdout,     \* main: what was printed to sys.stdout
    stderr,     \* main: the kind of message printed to sys.stderr
    exitCode,   \* main: the returned exit code
    file1_lines, \* compare_files: argument file1_lines
    file2_lines, \* compare_files: argument file2_lines
    results,    \* compare_files: the returned list of DiffResult
    pc          \* "input" before the call, "done" after it returned,
                \* "raised" after it raised

vars == <<lines1, lines2, scenario, opcodes, blocks, output,
          line1, line2, tokens1, tokens2, tokOpcodes, result, annotated,
          normalized, renormalized, equalNorm, equalNormRev,
          file1, file2, text,
          otherLines1, otherLines2, otherBlocks, otherOutput,
          raw, readLines, readError,
          args, fs, reads, written, stdout, stderr, exitCode,
          file1_lines, file2_lines, results, pc>>

lineVars == <<lines1, lines2, opcodes, blocks, output>>
annVars == <<line1, line2, tokens1, tokens2, tokOpcodes, result, annotated>>
normVars == <<normalized, renormalized, equalNorm, equalNormRev>>
fileVars == <<file1, file2, text>>
pairVars == <<otherLines1, otherLines2, otherBlocks, otherOutput>>
readVars == <<raw, readLines, readError>>
cliVars == <<args, fs, reads, written, stdout, stderr, exitCode>>
legacyVars == <<file1_lines, file2_lines, results>>
extVars == <<pairVars, readVars, cliVars, legacyVars>>
coreVars == <<lineVars, annVars, normVars, fileVars>>

\* the variables of a call that does not take place keep these values
PairIdle ==
    /\ otherLines1 = <<>>
    /\ otherLines2 = <<>>
    /\ otherBlocks = <<>>
    /\ otherOutput = <<>>

ReadIdle ==
    /\ raw = <<>>
    /\ readLines = <<>>
    /\ readError = "none"

CliIdle ==
    /\ args = <<>>
    /\ fs = <<>>
    /\ reads = <<>>
    /\ written = <<>>
    /\ stdout = <<>>
    /\ stderr = [kind |-> "none", detail |-> ""]
    /\ exitCode = 0

LegacyIdle ==
    /\ file1_lines = <<>>
    /\ file2_lines = <<>>
    /\ results = <<>>

ExtIdle == PairIdle /\ ReadIdle /\ CliIdle /\ LegacyIdle

(***************************************************************************)
(* Bounds of the checked instance.                                         *)
(***************************************************************************)
MaxLines1 == 4      \* longest File A list
MaxLines2 == 3      \* longest freely chosen File B list
MaxLineLen == 4     \* longest line handed to annotate_changes
MaxNormLen == 5     \* longest line handed to normalize_line
MaxOtherLen == 3    \* longest second line handed to lines_equal_norm
LongWords == 101    \* words of the longest line2 handed to annotate_changes
MaxFileLen == 4     \* characters of the longest first file
MaxFile2Len == 3    \* characters of the longest freely chosen second file
MaxRawLen == 3      \* bytes of the longest file handed to read_lines

(***************************************************************************)
(* Strings.                                                                *)
(***************************************************************************)
At(s, i) == s[i + 1]

Slice(s, lo, hi) == SubSeq(s, lo + 1, hi)

Range(s) == {s[k] : k \in 1..Len(s)}

Range2(f) == {f[x] : x \in DOMAIN f}

Max(S) == CHOOSE x \in S : \A y \in S : y <= x

Min(S) == CHOOSE x \in S : \A y \in S : x <= y

\* str.join of the empty separator: "".join(parts), the concatenation of
\* the parts in order (computed by halves, which keeps the nesting of the
\* evaluation logarithmic in the number of parts)
RECURSIVE Join(_)
Join(parts) ==
    IF parts = <<>> THEN <<>>
    ELSE IF Len(parts) = 1 THEN parts[1]
    ELSE Join(SubSeq(parts, 1, Len(parts) \div 2))
         \o Join(SubSeq(parts, (Len(parts) \div 2) + 1, Len(parts)))

\* the regular-expression class \s, over the characters of the model
IsSpace(c) == c \in {" ", "\t"}

(***************************************************************************)
(* diff.py: normalisation and tokenisation.                                *)
(***************************************************************************)
\* mutant of normalize_line: the result is trimmed (" ".join(line.split()))
RECURSIVE normalize_lineStrip(_)
normalize_lineStrip(line) ==
    IF line = <<>> THEN <<>>
    ELSE IF IsSpace(Head(line)) THEN normalize_lineStrip(Tail(line))
    ELSE IF Len(line) = 1 THEN line
    ELSE IF IsSpace(line[2])
         THEN (IF normalize_lineStrip(Tail(line)) = <<>>
               THEN <<Head(line)>>
               ELSE <<Head(line), " ">> \o normalize_lineStrip(Tail(line)))
         ELSE <<Head(line)>> \o normalize_lineStrip(Tail(line))

\* mutant of normalize_line: whitespace is collapsed pair by pair
\* (re.sub(r"\s\s", " ", line))
RECURSIVE normalize_linePairs(_)
normalize_linePairs(line) ==
    IF Len(line) < 2 THEN line
    ELSE IF IsSpace(line[1]) /\ IsSpace(line[2])
         THEN <<" ">> \o normalize_linePairs(SubSeq(line, 3, Len(line)))
         ELSE <<Head(line)>> \o normalize_linePairs(Tail(line))

\* re.sub(r"\s+", " ", line): every maximal run of whitespace is replaced by
\* one space, every other character is kept.  The result for a line is the
\* results for its two halves, with one space only for a run the cut falls
\* into (computed by halves, which keeps the nesting of the evaluation
\* logarithmic).
RECURSIVE normalize_line(_)
normalize_line(line) ==
    IF line = <<>> THEN <<>>
    ELSE IF Len(line) = 1 THEN (IF IsSpace(line[1]) THEN <<" ">> ELSE line)
    ELSE LET mid == Len(line) \div 2
             left == normalize_line(SubSeq(line, 1, mid))
             right == normalize_line(SubSeq(line, mid + 1, Len(line)))
         IN  IF IsSpace(line[mid]) /\ IsSpace(line[mid + 1])
             THEN left \o Tail(right)
             ELSE left \o right

lines_equal_norm(a, b) == normalize_line(a) = normalize_line(b)

\* mutant of _tokenize: the whitespace runs are dropped (re.findall(r"\S+"))
RECURSIVE _tokenizeWords(_)
_tokenizeWords(line) ==
    IF line = <<>> THEN <<>>
    ELSE IF Len(line) = 1 THEN (IF IsSpace(line[1]) THEN <<>> ELSE <<line>>)
    ELSE LET mid == Len(line) \div 2
             left == _tokenizeWords(SubSeq(line, 1, mid))
             right == _tokenizeWords(SubSeq(line, mid + 1, Len(line)))
         IN  IF ~IsSpace(line[mid]) /\ ~IsSpace(line[mid + 1])
             THEN SubSeq(left, 1, Len(left) - 1)
                  \o <<left[Len(left)] \o Head(right)>> \o Tail(right)
             ELSE left \o right

\* mutant of _tokenize: runs are not maximal, every character is a token
\* (re.findall(r"\s|\S", line))
_tokenizeChars(line) == [k \in 1..Len(line) |-> <<line[k]>>]

\* re.findall(r"\s+|\S+", line): the maximal runs of whitespace and of
\* non-whitespace characters, in order.  The runs of a line are the runs of
\* its two halves, the run the cut falls into being joined again (computed
\* by halves, which keeps the nesting of the evaluation logarithmic).
RECURSIVE _tokenize(_)
_tokenize(line) ==
    IF line = <<>> THEN <<>>
    ELSE IF Len(line) = 1 THEN <<line>>
    ELSE LET mid == Len(line) \div 2
             left == _tokenize(SubSeq(line, 1, mid))
             right == _tokenize(SubSeq(line, mid + 1, Len(line)))
         IN  IF IsSpace(line[mid]) = IsSpace(line[mid + 1])
             THEN SubSeq(left, 1, Len(left) - 1)
                  \o <<left[Len(left)] \o Head(right)>> \o Tail(right)
             ELSE left \o right

\* mutant of _format_file_line: no space after the colon of an empty side
_format_file_lineBare(label, content) ==
    IF content # <<>> THEN label \o <<":", " ">> \o content
    ELSE label \o <<":">>

\* f"{label}: {content}" if content else f"{label}: "
_format_file_line(label, content) ==
    IF content # <<>> THEN label \o <<":", " ">> \o content
    ELSE label \o <<":", " ">>

(***************************************************************************)
(* difflib.SequenceMatcher as diff.py uses it: isjunk is None, so the junk *)
(* set is empty and only the popularity heuristic (autojunk) can remove    *)
(* elements from b2j.                                                      *)
(***************************************************************************)
AutojunkMinLen == 200

\* __chain_b: the elements of b purged from b2j as "popular"
bpopular(b, autojunk) ==
    IF autojunk /\ Len(b) >= AutojunkMinLen
    THEN LET ntest == (Len(b) \div 100) + 1
         IN  {elt \in Range(b) :
                 Cardinality({k \in 1..Len(b) : b[k] = elt}) > ntest}
    ELSE {}

\* find_longest_match, inner loop: newj2len for row i from the j2len of row
\* i-1; an index j is visited iff b[j] = a[i], b[j] is in b2j and
\* blo <= j < bhi, and a j that is not visited has no entry (0 here)
NewJ2len(a, b, popular, i, blo, bhi, j2len) ==
    [j \in blo..(bhi - 1) |->
        IF At(b, j) = At(a, i) /\ At(b, j) \notin popular
        THEN (IF j - 1 >= blo THEN j2len[j - 1] ELSE 0) + 1
        ELSE 0]

\* find_longest_match, outer loop over i in range(alo, ahi): best is updated
\* only by a strictly longer run, the j of a row being visited in
\* increasing order
RECURSIVE LongestRun(_, _, _, _, _, _, _, _, _)
LongestRun(a, b, popular, i, ahi, blo, bhi, j2len, best) ==
    IF i >= ahi THEN best
    ELSE LET row == NewJ2len(a, b, popular, i, blo, bhi, j2len)
             k == IF blo < bhi THEN Max(Range2(row)) ELSE 0
             j == Min({x \in blo..(bhi - 1) : row[x] = k})
             newbest == IF k > best[3]
                        THEN <<i - k + 1, j - k + 1, k>>
                        ELSE best
         IN  LongestRun(a, b, popular, i + 1, ahi, blo, bhi, row, newbest)

\* first extension loop: grow the match to the left over equal elements
RECURSIVE ExtendLeft(_, _, _, _, _)
ExtendLeft(a, b, alo, blo, best) ==
    IF best[1] > alo /\ best[2] > blo
       /\ At(a, best[1] - 1) = At(b, best[2] - 1)
    THEN ExtendLeft(a, b, alo, blo, <<best[1] - 1, best[2] - 1, best[3] + 1>>)
    ELSE best

\* second extension loop: grow the match to the right over equal elements
RECURSIVE ExtendRight(_, _, _, _, _)
ExtendRight(a, b, ahi, bhi, best) ==
    IF best[1] + best[3] < ahi /\ best[2] + best[3] < bhi
       /\ At(a, best[1] + best[3]) = At(b, best[2] + best[3])
    THEN ExtendRight(a, b, ahi, bhi, <<best[1], best[2], best[3] + 1>>)
    ELSE best

\* Match(besti, bestj, bestsize); the two junk-extension loops never run
\* because bjunk is empty
find_longest_match(a, b, popular, alo, ahi, blo, bhi) ==
    ExtendRight(a, b, ahi, bhi,
        ExtendLeft(a, b, alo, blo,
            LongestRun(a, b, popular, alo, ahi, blo, bhi,
                       [j \in blo..(bhi - 1) |-> 0], <<alo, blo, 0>>)))

\* get_matching_blocks, the work queue: the blocks of a[alo:ahi] against
\* b[blo:bhi], in the order matching_blocks.sort() leaves them
RECURSIVE SortedBlocks(_, _, _, _, _, _, _)
SortedBlocks(a, b, popular, alo, ahi, blo, bhi) ==
    LET x == find_longest_match(a, b, popular, alo, ahi, blo, bhi)
        i == x[1]
        j == x[2]
        k == x[3]
    IN  IF k = 0 THEN <<>>
        ELSE (IF alo < i /\ blo < j
              THEN SortedBlocks(a, b, popular, alo, i, blo, j) ELSE <<>>)
             \o <<x>>
             \o (IF i + k < ahi /\ j + k < bhi
                 THEN SortedBlocks(a, b, popular, i + k, ahi, j + k, bhi)
                 ELSE <<>>)

\* get_matching_blocks, collapsing adjacent blocks: cur is (i1, j1, k1)
RECURSIVE Collapse(_, _)
Collapse(mb, cur) ==
    IF mb = <<>> THEN (IF cur[3] # 0 THEN <<cur>> ELSE <<>>)
    ELSE LET nxt == Head(mb)
         IN  IF cur[1] + cur[3] = nxt[1] /\ cur[2] + cur[3] = nxt[2]
             THEN Collapse(Tail(mb), <<cur[1], cur[2], cur[3] + nxt[3]>>)
             ELSE (IF cur[3] # 0 THEN <<cur>> ELSE <<>>)
                  \o Collapse(Tail(mb), nxt)

\* the non-adjacent blocks followed by the sentinel (la, lb, 0)
get_matching_blocks(a, b, autojunk) ==
    Collapse(SortedBlocks(a, b, bpopular(b, autojunk), 0, Len(a), 0, Len(b)),
             <<0, 0, 0>>)
    \o <<<<Len(a), Len(b), 0>>>>

Opcode(tag, i1, i2, j1, j2) ==
    [tag |-> tag, i1 |-> i1, i2 |-> i2, j1 |-> j1, j2 |-> j2]

\* get_opcodes, the loop over the matching blocks with the cursor (i, j)
RECURSIVE OpcodesFrom(_, _, _)
OpcodesFrom(mb, i, j) ==
    IF mb = <<>> THEN <<>>
    ELSE LET ai == Head(mb)[1]
             bj == Head(mb)[2]
             size == Head(mb)[3]
             tag == IF i < ai /\ j < bj THEN "replace"
                    ELSE IF i < ai THEN "delete"
                    ELSE IF j < bj THEN "insert"
                    ELSE ""
         IN  (IF tag # "" THEN <<Opcode(tag, i, ai, j, bj)>> ELSE <<>>)
             \o (IF size # 0
                 THEN <<Opcode("equal", ai, ai + size, bj, bj + size)>>
                 ELSE <<>>)
             \o OpcodesFrom(Tail(mb), ai + size, bj + size)

get_opcodes(a, b, autojunk) ==
    OpcodesFrom(get_matching_blocks(a, b, autojunk), 0, 0)

(***************************************************************************)
(* diff.py: annotate_changes.                                              *)
(***************************************************************************)
Plus == <<"+", "+">>

Minus == <<"-", "-">>

\* f"++{token}++" / f"--{token}--"
Wrap(mark, token) == mark \o token \o mark

WrapAll(mark, toks) == [k \in 1..Len(toks) |-> Wrap(mark, toks[k])]

\* mutant of RenderOpcode: a Replace span renders its insertions first
RenderOpcodeInsertFirst(op, toks1, toks2) ==
    IF op.tag = "equal" THEN Slice(toks2, op.j1, op.j2)
    ELSE IF op.tag = "insert" THEN WrapAll(Plus, Slice(toks2, op.j1, op.j2))
    ELSE IF op.tag = "delete" THEN WrapAll(Minus, Slice(toks1, op.i1, op.i2))
    ELSE WrapAll(Plus, Slice(toks2, op.j1, op.j2))
         \o WrapAll(Minus, Slice(toks1, op.i1, op.i2))

\* mutant of RenderOpcode: a Replace span renders its insertions only
RenderOpcodeReplaceInserts(op, toks1, toks2) ==
    IF op.tag = "equal" THEN Slice(toks2, op.j1, op.j2)
    ELSE IF op.tag = "insert" THEN WrapAll(Plus, Slice(toks2, op.j1, op.j2))
    ELSE IF op.tag = "delete" THEN WrapAll(Minus, Slice(toks1, op.i1, op.i2))
    ELSE WrapAll(Plus, Slice(toks2, op.j1, op.j2))

\* the body of the loop over matcher.get_opcodes(): what one opcode
\* appends to result
RenderOpcode(op, toks1, toks2) ==
    IF op.tag = "equal" THEN Slice(toks2, op.j1, op.j2)
    ELSE IF op.tag = "insert" THEN WrapAll(Plus, Slice(toks2, op.j1, op.j2))
    ELSE IF op.tag = "delete" THEN WrapAll(Minus, Slice(toks1, op.i1, op.i2))
    ELSE WrapAll(Minus, Slice(toks1, op.i1, op.i2))
         \o WrapAll(Plus, Slice(toks2, op.j1, op.j2))

RECURSIVE RenderOpcodes(_, _, _)
RenderOpcodes(ops, toks1, toks2) ==
    IF ops = <<>> THEN <<>>
    ELSE RenderOpcode(Head(ops), toks1, toks2)
         \o RenderOpcodes(Tail(ops), toks1, toks2)

\* mutant of TokenOpcodes: the tokens are matched after normalisation
TokenOpcodesNormalized(toks1, toks2) ==
    get_opcodes([k \in 1..Len(toks1) |-> normalize_line(toks1[k])],
                [k \in 1..Len(toks2) |-> normalize_line(toks2[k])], TRUE)

\* SequenceMatcher(None, tokens1, tokens2): autojunk keeps its default, True
TokenOpcodes(toks1, toks2) == get_opcodes(toks1, toks2, TRUE)

annotate_changes(l1, l2) ==
    Join(RenderOpcodes(TokenOpcodes(_tokenize(l1), _tokenize(l2)),
                       _tokenize(l1), _tokenize(l2)))

(***************************************************************************)
(* diff.py: diff_lines.                                                    *)
(***************************************************************************)
NormalizeAll(lines) == [k \in 1..Len(lines) |-> normalize_line(lines[k])]

\* mutant of LineOpcodes: set_seq2 is missing, File B is matched raw
LineOpcodesSeq2Raw(l1, l2) == get_opcodes(NormalizeAll(l1), l2, FALSE)

\* mutant of LineOpcodes: both files are matched raw
LineOpcodesRaw(l1, l2) == get_opcodes(l1, l2, FALSE)

\* mutant of LineOpcodes: set_seq1 is missing, File A is matched raw
LineOpcodesSeq1Raw(l1, l2) == get_opcodes(l1, NormalizeAll(l2), FALSE)

\* mutant of LineOpcodes: the lines are matched with all whitespace removed
LineOpcodesSquashed(l1, l2) ==
    get_opcodes([k \in 1..Len(l1) |-> SelectSeq(l1[k], LAMBDA c : ~IsSpace(c))],
                [k \in 1..Len(l2) |-> SelectSeq(l2[k], LAMBDA c : ~IsSpace(c))],
                FALSE)

\* SequenceMatcher(None, lines1, lines2, autojunk=False) after set_seq1 and
\* set_seq2 replaced both sequences by the normalised lines
LineOpcodes(l1, l2) == get_opcodes(NormalizeAll(l1), NormalizeAll(l2), FALSE)

NoIndex == 0 - 1

\* one emitted block: the index i into lines1 and j into lines2 of the
\* lines it renders (NoIndex for the side that is left empty)
Block(kind, i, j) == [kind |-> kind, i |-> i, j |-> j]

\* mutant of SpanBlocks: the leftover lines of a Replace span are dropped
SpanBlocksNoLeftover(op) ==
    LET na == op.i2 - op.i1
        nb == op.j2 - op.j1
        m == IF na < nb THEN na ELSE nb
    IN  IF op.tag = "equal" THEN <<>>
        ELSE IF op.tag = "insert"
             THEN [k \in 1..nb |-> Block("insert", NoIndex, op.j1 + k - 1)]
        ELSE IF op.tag = "delete"
             THEN [k \in 1..na |-> Block("delete", op.i1 + k - 1, NoIndex)]
        ELSE [k \in 1..m |-> Block("pair", op.i1 + k - 1, op.j1 + k - 1)]

\* mutant of SpanBlocks: the leftover lines of a Replace span come first
SpanBlocksLeftoverFirst(op) ==
    LET na == op.i2 - op.i1
        nb == op.j2 - op.j1
        m == IF na < nb THEN na ELSE nb
    IN  IF op.tag = "equal" THEN <<>>
        ELSE IF op.tag = "insert"
             THEN [k \in 1..nb |-> Block("insert", NoIndex, op.j1 + k - 1)]
        ELSE IF op.tag = "delete"
             THEN [k \in 1..na |-> Block("delete", op.i1 + k - 1, NoIndex)]
        ELSE (IF na > nb
              THEN [k \in 1..(na - nb) |->
                       Block("delete", op.i1 + nb + k - 1, NoIndex)]
              ELSE IF nb > na
              THEN [k \in 1..(nb - na) |->
                       Block("insert", NoIndex, op.j1 + na + k - 1)]
              ELSE <<>>)
             \o [k \in 1..m |-> Block("pair", op.i1 + k - 1, op.j1 + k - 1)]

\* mutant of SpanBlocks: the lines of an Insert span are emitted last first
SpanBlocksInsertReversed(op) ==
    LET na == op.i2 - op.i1
        nb == op.j2 - op.j1
        m == IF na < nb THEN na ELSE nb
    IN  IF op.tag = "equal" THEN <<>>
        ELSE IF op.tag = "insert"
             THEN [k \in 1..nb |-> Block("insert", NoIndex, op.j2 - k)]
        ELSE IF op.tag = "delete"
             THEN [k \in 1..na |-> Block("delete", op.i1 + k - 1, NoIndex)]
        ELSE [k \in 1..m |-> Block("pair", op.i1 + k - 1, op.j1 + k - 1)]
             \o (IF na > nb
                 THEN [k \in 1..(na - nb) |->
                          Block("delete", op.i1 + nb + k - 1, NoIndex)]
                 ELSE IF nb > na
                 THEN [k \in 1..(nb - na) |->
                          Block("insert", NoIndex, op.j1 + na + k - 1)]
                 ELSE <<>>)

\* mutant of SpanBlocks: the loop over an Insert span runs one line past
\* its end (range(j1, j2 + 1))
SpanBlocksPastEnd(op) ==
    LET na == op.i2 - op.i1
        nb == op.j2 - op.j1
        m == IF na < nb THEN na ELSE nb
    IN  IF op.tag = "equal" THEN <<>>
        ELSE IF op.tag = "insert"
             THEN [k \in 1..(nb + 1) |->
                      Block("insert", NoIndex, op.j1 + k - 1)]
        ELSE IF op.tag = "delete"
             THEN [k \in 1..na |-> Block("delete", op.i1 + k - 1, NoIndex)]
        ELSE [k \in 1..m |-> Block("pair", op.i1 + k - 1, op.j1 + k - 1)]
             \o (IF na > nb
                 THEN [k \in 1..(na - nb) |->
                          Block("delete", op.i1 + nb + k - 1, NoIndex)]
                 ELSE IF nb > na
                 THEN [k \in 1..(nb - na) |->
                          Block("insert", NoIndex, op.j1 + na + k - 1)]
                 ELSE <<>>)

\* the blocks one opcode emits, in the order of the appends
SpanBlocks(op) ==
    LET na == op.i2 - op.i1
        nb == op.j2 - op.j1
        m == IF na < nb THEN na ELSE nb
    IN  IF op.tag = "equal" THEN <<>>
        ELSE IF op.tag = "insert"
             THEN [k \in 1..nb |-> Block("insert", NoIndex, op.j1 + k - 1)]
        ELSE IF op.tag = "delete"
             THEN [k \in 1..na |-> Block("delete", op.i1 + k - 1, NoIndex)]
        ELSE [k \in 1..m |-> Block("pair", op.i1 + k - 1, op.j1 + k - 1)]
             \o (IF na > nb
                 THEN [k \in 1..(na - nb) |->
                          Block("delete", op.i1 + nb + k - 1, NoIndex)]
                 ELSE IF nb > na
                 THEN [k \in 1..(nb - na) |->
                          Block("insert", NoIndex, op.j1 + na + k - 1)]
                 ELSE <<>>)

\* mutant of AllBlocks: the blocks of a later opcode are put first
RECURSIVE AllBlocksReversed(_)
AllBlocksReversed(ops) ==
    IF ops = <<>> THEN <<>>
    ELSE AllBlocksReversed(Tail(ops)) \o SpanBlocks(Head(ops))

\* the blocks of all opcodes, in the order of the loop over get_opcodes()
RECURSIVE AllBlocks(_)
AllBlocks(ops) ==
    IF ops = <<>> THEN <<>> ELSE SpanBlocks(Head(ops)) \o AllBlocks(Tail(ops))

Separator == <<"-", "-", "-">>

FileA == <<"F", "i", "l", "e", " ", "A">>

FileB == <<"F", "i", "l", "e", " ", "B">>

\* mutant of RenderBlock: the File A and File B entries show the normalised
\* lines
RenderBlockNormalised(blk, l1, l2) ==
    LET a == IF blk.i = NoIndex THEN <<>> ELSE At(l1, blk.i)
        b == IF blk.j = NoIndex THEN <<>> ELSE At(l2, blk.j)
    IN  << Separator,
           _format_file_line(FileA, normalize_line(a)),
           _format_file_line(FileB, normalize_line(b)),
           <<>>,
           IF blk.kind = "insert" THEN Wrap(Plus, b)
           ELSE IF blk.kind = "delete" THEN Wrap(Minus, a)
           ELSE annotate_changes(a, b),
           <<>> >>

\* the six output.append calls of one block
RenderBlock(blk, l1, l2) ==
    LET a == IF blk.i = NoIndex THEN <<>> ELSE At(l1, blk.i)
        b == IF blk.j = NoIndex THEN <<>> ELSE At(l2, blk.j)
    IN  << Separator,
           _format_file_line(FileA, a),
           _format_file_line(FileB, b),
           <<>>,
           IF blk.kind = "insert" THEN Wrap(Plus, b)
           ELSE IF blk.kind = "delete" THEN Wrap(Minus, a)
           ELSE annotate_changes(a, b),
           <<>> >>

RECURSIVE RenderBlocks(_, _, _)
RenderBlocks(blks, l1, l2) ==
    IF blks = <<>> THEN <<>>
    ELSE RenderBlock(Head(blks), l1, l2) \o RenderBlocks(Tail(blks), l1, l2)

\* lines1[i] or lines2[j] raises IndexError (list index out of range) for
\* some block: the call does not return
RaisesIndexError(blks, l1, l2) ==
    \E k \in 1..Len(blks) : blks[k].i >= Len(l1) \/ blks[k].j >= Len(l2)

diff_lines(l1, l2) == RenderBlocks(AllBlocks(LineOpcodes(l1, l2)), l1, l2)

(***************************************************************************)
(* diff.py: read_lines and diff_files.  A file is its decoded content, a   *)
(* string; a path that cannot be opened is outside the model.              *)
(***************************************************************************)
Newline == <<"\n">>

\* the positions of the newline characters of content
NewlinesOf(content) == {k \in 1..Len(content) : content[k] = "\n"}

\* [line.rstrip("\n") for line in f]: iterating the file yields the pieces
\* that end with a newline, and the rest if the content does not end with
\* one; rstrip removes that newline
RECURSIVE read_lines(_)
read_lines(content) ==
    IF content = <<>> THEN <<>>
    ELSE IF NewlinesOf(content) = {} THEN <<content>>
    ELSE <<SubSeq(content, 1, Min(NewlinesOf(content)) - 1)>>
         \o read_lines(SubSeq(content, Min(NewlinesOf(content)) + 1,
                              Len(content)))

\* number of bytes of the UTF-8 sequence that lead byte b starts, 0 if b
\* cannot start one (codec utf-8 of path.open("r", encoding="utf-8"))
Utf8Len(b) ==
    IF b < 128 THEN 1
    ELSE IF 194 <= b /\ b <= 223 THEN 2
    ELSE IF 224 <= b /\ b <= 239 THEN 3
    ELSE IF 240 <= b /\ b <= 244 THEN 4
    ELSE 0

\* c is a valid n-th byte (n >= 2) of the sequence that lead byte b starts
Utf8Continues(b, n, c) ==
    IF n > 2 THEN 128 <= c /\ c <= 191
    ELSE IF b = 224 THEN 160 <= c /\ c <= 191
    ELSE IF b = 237 THEN 128 <= c /\ c <= 159
    ELSE IF b = 240 THEN 144 <= c /\ c <= 191
    ELSE IF b = 244 THEN 128 <= c /\ c <= 143
    ELSE 128 <= c /\ c <= 191

\* the bytes are well-formed UTF-8: decoding them raises no
\* UnicodeDecodeError
RECURSIVE Utf8Valid(_)
Utf8Valid(bytes) ==
    IF bytes = <<>> THEN TRUE
    ELSE /\ Utf8Len(bytes[1]) # 0
         /\ Utf8Len(bytes[1]) <= Len(bytes)
         /\ \A n \in 2..Utf8Len(bytes[1]) :
                Utf8Continues(bytes[1], n, bytes[n])
         /\ Utf8Valid(SubSeq(bytes, Utf8Len(bytes[1]) + 1, Len(bytes)))

\* the code point of the UTF-8 sequence at the head of bytes
Utf8CodePoint(bytes) ==
    IF Utf8Len(bytes[1]) = 1 THEN bytes[1]
    ELSE IF Utf8Len(bytes[1]) = 2
    THEN (bytes[1] % 32) * 64 + (bytes[2] % 64)
    ELSE IF Utf8Len(bytes[1]) = 3
    THEN (bytes[1] % 16) * 4096 + (bytes[2] % 64) * 64 + (bytes[3] % 64)
    ELSE (bytes[1] % 8) * 262144 + (bytes[2] % 64) * 4096
         + (bytes[3] % 64) * 64 + (bytes[4] % 64)

\* the character of code point cp, as the one-character string the rest of
\* the model uses; a character outside the model's alphabet is named by its
\* code point
Chr(cp) ==
    IF cp = 10 THEN "\n"
    ELSE IF cp = 32 THEN " "
    ELSE IF cp = 97 THEN "a"
    ELSE ToString(cp)

\* the text of well-formed UTF-8 bytes
RECURSIVE Utf8Decode(_)
Utf8Decode(bytes) ==
    IF bytes = <<>> THEN <<>>
    ELSE <<Chr(Utf8CodePoint(bytes))>>
         \o Utf8Decode(SubSeq(bytes, Utf8Len(bytes[1]) + 1, Len(bytes)))

\* mutant of JoinWith: every entry is followed by the separator
RECURSIVE JoinWithTerminated(_, _)
JoinWithTerminated(sep, parts) ==
    IF parts = <<>> THEN <<>>
    ELSE Head(parts) \o sep \o JoinWithTerminated(sep, Tail(parts))

\* sep.join(parts)
RECURSIVE JoinWith(_, _)
JoinWith(sep, parts) ==
    IF parts = <<>> THEN <<>>
    ELSE IF Len(parts) = 1 THEN parts[1]
    ELSE Head(parts) \o sep \o JoinWith(sep, Tail(parts))

diff_files(content1, content2) ==
    JoinWith(Newline, diff_lines(read_lines(content1), read_lines(content2)))

(***************************************************************************)
(* Inputs of the checked instance.                                         *)
(***************************************************************************)
\* the lines a file is made of: two normalised classes, one of them with
\* two raw spellings that differ in whitespace quantity only
LineUniverse == { <<"a">>, <<"a", " ", "b">>, <<"a", " ", " ", "b">> }

\* the characters a line handed to annotate_changes is made of
Chars == {"a", " ", "\t"}

ListsUpTo(U, n) == UNION {[1..k -> U] : k \in 0..n}

InsertAt(l, p, x) == Slice(l, 0, p) \o <<x>> \o Slice(l, p, Len(l))

RemoveAt(l, k) == Slice(l, 0, k) \o Slice(l, k + 1, Len(l))

Scenario(kind, x, at) == [kind |-> kind, x |-> x, at |-> at]

(***************************************************************************)
(* Calls of diff_lines(lines1, lines2).                                    *)
(***************************************************************************)
Init ==
    /\ lines1 \in ListsUpTo(LineUniverse, MaxLines1)
    /\ lines2 = <<>>
    /\ scenario = Scenario("none", <<>>, 0)
    /\ opcodes = <<>>
    /\ blocks = <<>>
    /\ output = <<>>
    /\ line1 = <<>>
    /\ line2 = <<>>
    /\ tokens1 = <<>>
    /\ tokens2 = <<>>
    /\ tokOpcodes = <<>>
    /\ result = <<>>
    /\ annotated = <<>>
    /\ normalized = <<>>
    /\ renormalized = <<>>
    /\ equalNorm = FALSE
    /\ equalNormRev = FALSE
    /\ file1 = <<>>
    /\ file2 = <<>>
    /\ text = <<>>
    /\ ExtIdle
    /\ pc = "input"

\* the call diff_lines(lines1, b): output' is diff_lines(lines1, b), computed
\* step by step so that opcodes and blocks keep the opcodes the call
\* iterated over and the indexes each block was rendered from
CallDiffLines(b, sc) ==
    /\ lines2' = b
    /\ scenario' = sc
    /\ opcodes' = LineOpcodes(lines1, b)
    /\ blocks' = AllBlocks(opcodes')
    /\ IF RaisesIndexError(blocks', lines1, b)
       THEN output' = <<>> /\ pc' = "raised"
       ELSE output' = RenderBlocks(blocks', lines1, b) /\ pc' = "done"
    /\ UNCHANGED <<lines1, annVars, normVars, fileVars, extVars>>

\* File B is File A with one line x inserted at position p
DiffInserted ==
    /\ pc = "input"
    /\ \E x \in LineUniverse : \E p \in 0..Len(lines1) :
        CallDiffLines(InsertAt(lines1, p, x), Scenario("insert", x, p))

\* File B is File A with the line at index k removed
DiffDeleted ==
    /\ pc = "input"
    /\ \E k \in 0..(Len(lines1) - 1) :
        CallDiffLines(RemoveAt(lines1, k), Scenario("delete", At(lines1, k), k))

\* File B is File A
DiffSelf ==
    /\ pc = "input"
    /\ CallDiffLines(lines1, Scenario("self", <<>>, 0))

\* File B is File A with the whitespace runs of some lines resized
DiffRespaced ==
    /\ pc = "input"
    /\ \E b \in [1..Len(lines1) -> LineUniverse] :
        /\ \A k \in 1..Len(lines1) : lines_equal_norm(lines1[k], b[k])
        /\ CallDiffLines(b, Scenario("respaced", <<>>, 0))

\* File B is any list of lines
DiffAny ==
    /\ pc = "input"
    /\ \E b \in ListsUpTo(LineUniverse, MaxLines2) :
        CallDiffLines(b, Scenario("any", <<>>, 0))

Next ==
    \/ DiffInserted
    \/ DiffDeleted
    \/ DiffSelf
    \/ DiffRespaced
    \/ DiffAny

Spec == Init /\ [][Next]_vars

(***************************************************************************)
(* Calls of annotate_changes(line1, line2).                                *)
(***************************************************************************)
InitAnn ==
    /\ lines1 = <<>>
    /\ lines2 = <<>>
    /\ scenario = Scenario("none", <<>>, 0)
    /\ opcodes = <<>>
    /\ blocks = <<>>
    /\ output = <<>>
    /\ line1 \in ListsUpTo(Chars, MaxLineLen)
    /\ line2 = <<>>
    /\ tokens1 = <<>>
    /\ tokens2 = <<>>
    /\ tokOpcodes = <<>>
    /\ result = <<>>
    /\ annotated = <<>>
    /\ normalized = <<>>
    /\ renormalized = <<>>
    /\ equalNorm = FALSE
    /\ equalNormRev = FALSE
    /\ file1 = <<>>
    /\ file2 = <<>>
    /\ text = <<>>
    /\ ExtIdle
    /\ pc = "input"

\* the call annotate_changes(line1, l2): annotated' is
\* annotate_changes(line1, l2), computed step by step so that the other
\* variables keep the locals of the call
CallAnnotate(l2, sc) ==
    /\ line2' = l2
    /\ scenario' = sc
    /\ tokens1' = _tokenize(line1)
    /\ tokens2' = _tokenize(l2)
    /\ tokOpcodes' = TokenOpcodes(tokens1', tokens2')
    /\ result' = RenderOpcodes(tokOpcodes', tokens1', tokens2')
    /\ annotated' = Join(result')
    /\ pc' = "done"
    /\ UNCHANGED <<line1, lineVars, normVars, fileVars, extVars>>

AnnotateSelf ==
    /\ pc = "input"
    /\ CallAnnotate(line1, Scenario("self", <<>>, 0))

AnnotateAny ==
    /\ pc = "input"
    /\ \E l2 \in ListsUpTo(Chars, MaxLineLen) :
        CallAnnotate(l2, Scenario("any", <<>>, 0))

\* the line of n words "a" separated by single spaces (2n - 1 tokens)
LongLine(n) == [k \in 1..(2 * n - 1) |-> IF k % 2 = 1 THEN "a" ELSE " "]

\* line2 is a long line, of just fewer or just more tokens than the length
\* from which SequenceMatcher applies its popularity heuristic
AnnotateLong ==
    /\ pc = "input"
    /\ \E n \in {LongWords - 1, LongWords} :
          CallAnnotate(LongLine(n), Scenario("long", <<>>, n))

NextAnn ==
    \/ AnnotateSelf
    \/ AnnotateAny
    \/ AnnotateLong

SpecAnn == InitAnn /\ [][NextAnn]_vars

(***************************************************************************)
(* Calls of diff_files on two files of contents file1 and file2.           *)
(***************************************************************************)
\* the characters a file is made of
FileChars == {"a", " ", "\n"}

InitFiles ==
    /\ lines1 = <<>>
    /\ lines2 = <<>>
    /\ scenario = Scenario("none", <<>>, 0)
    /\ opcodes = <<>>
    /\ blocks = <<>>
    /\ output = <<>>
    /\ line1 = <<>>
    /\ line2 = <<>>
    /\ tokens1 = <<>>
    /\ tokens2 = <<>>
    /\ tokOpcodes = <<>>
    /\ result = <<>>
    /\ annotated = <<>>
    /\ normalized = <<>>
    /\ renormalized = <<>>
    /\ equalNorm = FALSE
    /\ equalNormRev = FALSE
    /\ file1 \in ListsUpTo(FileChars, MaxFileLen)
    /\ file2 = <<>>
    /\ text = <<>>
    /\ ExtIdle
    /\ pc = "input"

\* the call diff_files(path1, path2) on files of contents file1 and f2:
\* text' is diff_files(file1, f2), computed step by step so that the other
\* variables keep the locals of the call and of the call of diff_lines
CallDiffFiles(f2, sc) ==
    /\ file2' = f2
    /\ scenario' = sc
    /\ lines1' = read_lines(file1)
    /\ lines2' = read_lines(f2)
    /\ opcodes' = LineOpcodes(lines1', lines2')
    /\ blocks' = AllBlocks(opcodes')
    /\ IF RaisesIndexError(blocks', lines1', lines2')
       THEN output' = <<>> /\ text' = <<>> /\ pc' = "raised"
       ELSE /\ output' = RenderBlocks(blocks', lines1', lines2')
            /\ text' = JoinWith(Newline, output')
            /\ pc' = "done"
    /\ UNCHANGED <<file1, annVars, normVars, extVars>>

\* the second file has the content of the first
DiffFilesSelf ==
    /\ pc = "input"
    /\ CallDiffFiles(file1, Scenario("self", <<>>, 0))

\* the second file has any content
DiffFilesAny ==
    /\ pc = "input"
    /\ \E f2 \in ListsUpTo(FileChars, MaxFile2Len) :
          CallDiffFiles(f2, Scenario("any", <<>>, 0))

NextFiles ==
    \/ DiffFilesSelf
    \/ DiffFilesAny

SpecFiles == InitFiles /\ [][NextFiles]_vars

(***************************************************************************)
(* Two calls of diff_lines on line lists that are equal, position by       *)
(* position, after normalisation.                                          *)
(***************************************************************************)
\* the lines of the two calls: two spellings of each of two normalised
\* lines, and a line of one spelling
PairUniverse ==
    { <<"a">>, <<"a", " ", "b">>, <<"a", " ", " ", "b">>,
      <<"b", " ", "a">>, <<"b", "\t", "a">> }

MaxPairLines1 == 2
MaxPairLines2 == 1

\* the lists of lines of PairUniverse that are, position by position, equal
\* to lines after normalisation
Respellings(lines) ==
    {l \in [1..Len(lines) -> PairUniverse] :
        \A k \in 1..Len(lines) : normalize_line(l[k]) = normalize_line(lines[k])}

InitPair ==
    /\ lines1 \in ListsUpTo(PairUniverse, MaxPairLines1)
    /\ lines2 = <<>>
    /\ scenario = Scenario("none", <<>>, 0)
    /\ opcodes = <<>>
    /\ blocks = <<>>
    /\ output = <<>>
    /\ line1 = <<>>
    /\ line2 = <<>>
    /\ tokens1 = <<>>
    /\ tokens2 = <<>>
    /\ tokOpcodes = <<>>
    /\ result = <<>>
    /\ annotated = <<>>
    /\ normalized = <<>>
    /\ renormalized = <<>>
    /\ equalNorm = FALSE
    /\ equalNormRev = FALSE
    /\ file1 = <<>>
    /\ file2 = <<>>
    /\ text = <<>>
    /\ otherLines1 \in Respellings(lines1)
    /\ otherLines2 = <<>>
    /\ otherBlocks = <<>>
    /\ otherOutput = <<>>
    /\ ReadIdle
    /\ CliIdle
    /\ LegacyIdle
    /\ pc = "input"

\* the calls diff_lines(lines1, b) and diff_lines(otherLines1, b2)
DiffPair ==
    /\ pc = "input"
    /\ \E b \in ListsUpTo(PairUniverse, MaxPairLines2) :
          \E b2 \in Respellings(b) :
              /\ lines2' = b
              /\ otherLines2' = b2
              /\ opcodes' = LineOpcodes(lines1, b)
              /\ blocks' = AllBlocks(opcodes')
              /\ otherBlocks' = AllBlocks(LineOpcodes(otherLines1, b2))
              /\ IF \/ RaisesIndexError(blocks', lines1, b)
                    \/ RaisesIndexError(otherBlocks', otherLines1, b2)
                 THEN /\ output' = <<>>
                      /\ otherOutput' = <<>>
                      /\ pc' = "raised"
                 ELSE /\ output' = RenderBlocks(blocks', lines1, b)
                      /\ otherOutput' =
                            RenderBlocks(otherBlocks', otherLines1, b2)
                      /\ pc' = "done"
    /\ UNCHANGED <<lines1, otherLines1, scenario, annVars, normVars,
                   fileVars, readVars, cliVars, legacyVars>>

NextPair == DiffPair

SpecPair == InitPair /\ [][NextPair]_vars

(***************************************************************************)
(* cli.py: main.  An optional value is <<>> for None and <<v>> for the     *)
(* string v; a path is the string given on the command line.               *)
(***************************************************************************)
None == <<>>

Some(v) == <<v>>

\* named or positional: the named value unless it is None or the empty
\* string, the positional value otherwise
FirstTruthy(named, positional) ==
    IF named # None /\ named[1] # "" THEN named ELSE positional

\* the paths of the command line other than the empty string
RealPaths == {"p", "q"}

Paths == RealPaths \cup {""}

\* what a path may lead to: nothing, a file that may not be opened, or a
\* readable file of some bytes ("a\n", "a a\n", and the latin-1 bytes of an
\* e acute, which are not UTF-8)
FileObjects ==
    { [kind |-> "missing", body |-> <<>>],
      [kind |-> "denied", body |-> <<>>],
      [kind |-> "file", body |-> <<97, 10>>],
      [kind |-> "file", body |-> <<97, 32, 97, 10>>],
      [kind |-> "file", body |-> <<233>>] }

\* Path("") is the current directory
FileAt(files, path) ==
    IF path = "" THEN [kind |-> "dir", body |-> <<>>] ELSE files[path]

\* path.exists()
Exists(files, path) == FileAt(files, path).kind # "missing"

\* the exception read_lines(path) raises, "none" if it returns
ReadRaises(files, path) ==
    IF FileAt(files, path).kind = "missing" THEN "FileNotFoundError"
    ELSE IF FileAt(files, path).kind = "denied" THEN "PermissionError"
    ELSE IF FileAt(files, path).kind = "dir" THEN "IsADirectoryError"
    ELSE IF ~Utf8Valid(FileAt(files, path).body) THEN "UnicodeDecodeError"
    ELSE "none"

\* the exception output_path.write_text(result) raises, "none" if it
\* returns
WriteRaises(files, path) ==
    IF FileAt(files, path).kind = "denied" THEN "PermissionError"
    ELSE IF FileAt(files, path).kind = "dir" THEN "IsADirectoryError"
    ELSE "none"

\* the exception classes that are OSError or a subclass of it
OSErrors ==
    {"OSError", "PermissionError", "FileNotFoundError", "IsADirectoryError"}

\* the except clauses of main: the message printed for exception exc
\* ("Error: <class name>: ..." or "Error: Unexpected error: ...")
Handler(exc) ==
    IF exc \in OSErrors
    THEN [kind |-> "io", detail |-> exc]
    ELSE [kind |-> "unexpected", detail |-> exc]

\* the namespaces parse_args can return: the positionals are filled in
\* order, every named option is given or not
Namespaces ==
    { a \in [file1 : {None} \cup {Some(v) : v \in Paths},
             file2 : {None} \cup {Some(v) : v \in Paths},
             output : {None} \cup {Some(v) : v \in Paths},
             named_file1 : {None} \cup {Some(v) : v \in Paths},
             named_file2 : {None} \cup {Some(v) : v \in Paths},
             named_output : {None} \cup {Some(v) : v \in Paths}] :
        /\ a.file2 # None => a.file1 # None
        /\ a.output # None => a.file2 # None }

Unwritten == [path \in RealPaths |-> None]

InitCli ==
    /\ lines1 = <<>>
    /\ lines2 = <<>>
    /\ scenario = Scenario("none", <<>>, 0)
    /\ opcodes = <<>>
    /\ blocks = <<>>
    /\ output = <<>>
    /\ line1 = <<>>
    /\ line2 = <<>>
    /\ tokens1 = <<>>
    /\ tokens2 = <<>>
    /\ tokOpcodes = <<>>
    /\ result = <<>>
    /\ annotated = <<>>
    /\ normalized = <<>>
    /\ renormalized = <<>>
    /\ equalNorm = FALSE
    /\ equalNormRev = FALSE
    /\ file1 = <<>>
    /\ file2 = <<>>
    /\ text = <<>>
    /\ PairIdle
    /\ ReadIdle
    /\ args = <<>>
    /\ fs \in [RealPaths -> FileObjects]
    /\ reads = <<>>
    /\ written = Unwritten
    /\ stdout = <<>>
    /\ stderr = [kind |-> "none", detail |-> ""]
    /\ exitCode = 0
    /\ LegacyIdle
    /\ pc = "input"

\* mutant of Fail: every failure returns 1 (the argument errors included)
FailAlwaysOne(code, msg, opened) ==
    /\ exitCode' = 1
    /\ stderr' = msg
    /\ reads' = opened
    /\ UNCHANGED <<written, stdout, text>>

\* main returns code after printing message msg to stderr; nothing is
\* printed to stdout and no file is written
Fail(code, msg, opened) ==
    /\ exitCode' = code
    /\ stderr' = msg
    /\ reads' = opened
    /\ UNCHANGED <<written, stdout, text>>

\* the call main() with the parsed command line a
Main(a) ==
    LET final_file1 == FirstTruthy(a.named_file1, a.file1)
        final_file2 == FirstTruthy(a.named_file2, a.file2)
        final_output == FirstTruthy(a.named_output, a.output)
    IN  /\ args' = a
        /\ pc' = "done"
        /\ UNCHANGED <<lineVars, annVars, normVars, file1, file2, scenario,
                       pairVars, readVars, fs, legacyVars>>
        /\ IF final_file1 = None
           THEN Fail(2, [kind |-> "required", detail |-> "first"], <<>>)
           ELSE IF final_file2 = None
           THEN Fail(2, [kind |-> "required", detail |-> "second"], <<>>)
           ELSE
           LET path1 == final_file1[1]
               path2 == final_file2[1]
           IN  IF ~Exists(fs, path1)
               THEN Fail(1, [kind |-> "notfound", detail |-> path1], <<>>)
               ELSE IF ~Exists(fs, path2)
               THEN Fail(1, [kind |-> "notfound", detail |-> path2], <<>>)
               ELSE IF ReadRaises(fs, path1) # "none"
               THEN Fail(1, Handler(ReadRaises(fs, path1)), <<path1>>)
               ELSE IF ReadRaises(fs, path2) # "none"
               THEN Fail(1, Handler(ReadRaises(fs, path2)),
                         <<path1, path2>>)
               ELSE
               /\ reads' = <<path1, path2>>
               /\ text' = diff_files(Utf8Decode(FileAt(fs, path1).body),
                                     Utf8Decode(FileAt(fs, path2).body))
               /\ IF final_output # None /\ final_output[1] # ""
                  THEN IF WriteRaises(fs, final_output[1]) # "none"
                       THEN /\ exitCode' = 1
                            /\ stderr' =
                                  Handler(WriteRaises(fs, final_output[1]))
                            /\ UNCHANGED <<written, stdout>>
                       ELSE /\ exitCode' = 0
                            /\ written' =
                                  [written EXCEPT
                                      ![final_output[1]] = Some(text')]
                            /\ UNCHANGED <<stdout, stderr>>
                  ELSE /\ exitCode' = 0
                       /\ stdout' = text' \o Newline
                       /\ UNCHANGED <<written, stderr>>

CallMain ==
    /\ pc = "input"
    /\ \E a \in Namespaces : Main(a)

NextCli == CallMain

SpecCli == InitCli /\ [][NextCli]_vars

(***************************************************************************)
(* diff_engine.py: the positional line-by-line engine.                     *)
(***************************************************************************)
\* re.sub(r"\s+", " ", text): every run of whitespace becomes one space
RECURSIVE normalize_whitespace(_)
normalize_whitespace(str) ==
    IF str = <<>> THEN <<>>
    ELSE IF ~IsSpace(Head(str)) THEN <<Head(str)>> \o normalize_whitespace(Tail(str))
    ELSE IF Len(str) >= 2 /\ IsSpace(str[2]) THEN normalize_whitespace(Tail(str))
    ELSE <<" ">> \o normalize_whitespace(Tail(str))

are_lines_identical(a, b) == normalize_whitespace(a) = normalize_whitespace(b)

\* re.split(r"(\s+)", line) without the empty strings: the maximal runs of
\* whitespace and of non-whitespace characters, in order
RECURSIVE tokenize_line(_)
tokenize_line(line) ==
    IF line = <<>> THEN <<>>
    ELSE LET rest == tokenize_line(Tail(line))
         IN  IF rest # <<>> /\ IsSpace(Head(rest)[1]) = IsSpace(Head(line))
             THEN <<(<<Head(line)>> \o Head(rest))>> \o Tail(rest)
             ELSE <<(<<Head(line)>>)>> \o rest

\* the non-whitespace tokens of a token list, as a set
WordSet(tokens) ==
    {tokens[k] : k \in {n \in 1..Len(tokens) : ~IsSpace(tokens[n][1])}}

\* the orders in which a set can be iterated
RECURSIVE Orderings(_)
Orderings(S) ==
    IF S = {} THEN {<<>>}
    ELSE UNION {{<<w>> \o o : o \in Orderings(S \ {w})} : w \in S}

\* the deletions of compute_diff_changes: the words of line1 not in line2
Deletions(a, b) ==
    WordSet(tokenize_line(normalize_whitespace(a)))
        \ WordSet(tokenize_line(normalize_whitespace(b)))

\* compute_diff_changes(line1, line2), order being the order in which the
\* set deletions is iterated
compute_diff_changes(a, b, order) ==
    LET norm1 == normalize_whitespace(a)
        norm2 == normalize_whitespace(b)
        tokens_1 == tokenize_line(norm1)
        tokens_2 == tokenize_line(norm2)
        additions == WordSet(tokens_2) \ WordSet(tokens_1)
        marked == [k \in 1..Len(tokens_2) |->
                     IF IsSpace(tokens_2[k][1]) THEN tokens_2[k]
                     ELSE IF tokens_2[k] \in additions
                     THEN <<"+", "+", " ">> \o tokens_2[k] \o <<" ", "+", "+">>
                     ELSE tokens_2[k]]
        deleted == [k \in 1..Len(order) |->
                     <<" ", "-", "-", " ">> \o order[k] \o <<" ", "-", "-">>]
    IN  IF norm1 = norm2 THEN b
        ELSE Join(marked) \o Join(deleted)

\* the dataclass DiffResult
DiffResult(l1, l2, changes, identical) ==
    [file1_line |-> l1, file2_line |-> l2, changes_line |-> changes,
     is_identical |-> identical]

compare_lines(a, b, order) ==
    IF are_lines_identical(a, b) THEN DiffResult(a, b, b, TRUE)
    ELSE DiffResult(a, b, compute_diff_changes(a, b, order), FALSE)

\* file + [""] * (max_lines - len(file))
Padded(file, max_lines) ==
    [k \in 1..max_lines |-> IF k <= Len(file) THEN file[k] ELSE <<>>]

\* compare_files(file1_lines, file2_lines), orders[k] being the iteration
\* order of the deletions of the k-th pair of lines
compare_files(f1, f2, orders) ==
    LET max_lines == Max({Len(f1), Len(f2)})
        file1_padded == Padded(f1, max_lines)
        file2_padded == Padded(f2, max_lines)
    IN  [k \in 1..max_lines |->
            compare_lines(file1_padded[k], file2_padded[k], orders[k])]

\* the iteration orders the calls of compare_lines of one call of
\* compare_files can meet
RECURSIVE OrderChoices(_, _)
OrderChoices(f1, f2) ==
    IF f1 = <<>> /\ f2 = <<>> THEN {<<>>}
    ELSE LET a == IF f1 = <<>> THEN <<>> ELSE Head(f1)
             b == IF f2 = <<>> THEN <<>> ELSE Head(f2)
             rest == OrderChoices(IF f1 = <<>> THEN <<>> ELSE Tail(f1),
                                  IF f2 = <<>> THEN <<>> ELSE Tail(f2))
         IN  {<<o>> \o r : o \in Orderings(Deletions(a, b)), r \in rest}

\* the lines of the files compared: empty and whitespace-only lines, lines
\* that differ in the amount of whitespace only, and lines of the same
\* words in another multiplicity or order
LegacyUniverse ==
    { <<>>, <<" ">>, <<"a">>, <<"b">>,
      <<"a", " ", "a">>, <<"a", " ", "b">>, <<"b", " ", "a">>,
      <<"a", "\t", " ", "b">> }

MaxLegacyLines1 == 2
MaxLegacyLines2 == 2

CoreIdle ==
    /\ lines1 = <<>>
    /\ lines2 = <<>>
    /\ scenario = Scenario("none", <<>>, 0)
    /\ opcodes = <<>>
    /\ blocks = <<>>
    /\ output = <<>>
    /\ line1 = <<>>
    /\ line2 = <<>>
    /\ tokens1 = <<>>
    /\ tokens2 = <<>>
    /\ tokOpcodes = <<>>
    /\ result = <<>>
    /\ annotated = <<>>
    /\ normalized = <<>>
    /\ renormalized = <<>>
    /\ equalNorm = FALSE
    /\ equalNormRev = FALSE
    /\ file1 = <<>>
    /\ file2 = <<>>
    /\ text = <<>>

InitLegacy ==
    /\ CoreIdle
    /\ PairIdle
    /\ ReadIdle
    /\ CliIdle
    /\ file1_lines \in ListsUpTo(LegacyUniverse, MaxLegacyLines1)
    /\ file2_lines = <<>>
    /\ results = <<>>
    /\ pc = "input"

\* the call compare_files(file1_lines, b)
CompareFiles ==
    /\ pc = "input"
    /\ \E b \in ListsUpTo(LegacyUniverse, MaxLegacyLines2) :
          \E orders \in OrderChoices(file1_lines, b) :
              /\ file2_lines' = b
              /\ results' = compare_files(file1_lines, b, orders)
    /\ pc' = "done"
    /\ UNCHANGED <<coreVars, scenario, pairVars, readVars, cliVars, file1_lines>>

NextLegacy == CompareFiles

SpecLegacy == InitLegacy /\ [][NextLegacy]_vars

(***************************************************************************)
(* Calls of annotate_changes on lines whose words may themselves look like *)
(* markers.                                                                *)
(***************************************************************************)
\* the words of such a line: two plain words, and a word of the form of a
\* deletion marker and of an addition marker
MarkedWords ==
    { <<"a">>, <<"b">>,
      <<"-", "-", "a", "-", "-">>, <<"+", "+", "a", "+", "+">> }

MaxMarkedWords == 2

\* the lines of up to n words of MarkedWords separated by single spaces
MarkedLines(n) ==
    {JoinWith(<<" ">>, ws) : ws \in ListsUpTo(MarkedWords, n)}

InitMarked ==
    /\ lines1 = <<>>
    /\ lines2 = <<>>
    /\ scenario = Scenario("none", <<>>, 0)
    /\ opcodes = <<>>
    /\ blocks = <<>>
    /\ output = <<>>
    /\ line1 \in MarkedLines(MaxMarkedWords)
    /\ line2 = <<>>
    /\ tokens1 = <<>>
    /\ tokens2 = <<>>
    /\ tokOpcodes = <<>>
    /\ result = <<>>
    /\ annotated = <<>>
    /\ normalized = <<>>
    /\ renormalized = <<>>
    /\ equalNorm = FALSE
    /\ equalNormRev = FALSE
    /\ file1 = <<>>
    /\ file2 = <<>>
    /\ text = <<>>
    /\ ExtIdle
    /\ pc = "input"

\* the call annotate_changes(line1, l2) on two such lines
AnnotateMarked ==
    /\ pc = "input"
    /\ \E l2 \in MarkedLines(MaxMarkedWords) :
          CallAnnotate(l2, Scenario("marked", <<>>, 0))

NextMarked == AnnotateMarked

SpecMarked == InitMarked /\ [][NextMarked]_vars

(***************************************************************************)
(* Calls of read_lines on a file of bytes raw.                             *)
(***************************************************************************)
\* the bytes a file is made of: 'a', newline, the no-break space and the
\* e acute of cp1252 and latin-1 (0xA0, 0xE9), and the two bytes of the
\* UTF-8 form of e acute (0xC3 0xA9)
Bytes == {97, 10, 160, 233, 195, 169}

InitRead ==
    /\ lines1 = <<>>
    /\ lines2 = <<>>
    /\ scenario = Scenario("none", <<>>, 0)
    /\ opcodes = <<>>
    /\ blocks = <<>>
    /\ output = <<>>
    /\ line1 = <<>>
    /\ line2 = <<>>
    /\ tokens1 = <<>>
    /\ tokens2 = <<>>
    /\ tokOpcodes = <<>>
    /\ result = <<>>
    /\ annotated = <<>>
    /\ normalized = <<>>
    /\ renormalized = <<>>
    /\ equalNorm = FALSE
    /\ equalNormRev = FALSE
    /\ file1 = <<>>
    /\ file2 = <<>>
    /\ text = <<>>
    /\ PairIdle
    /\ raw \in ListsUpTo(Bytes, MaxRawLen)
    /\ readLines = <<>>
    /\ readError = "none"
    /\ CliIdle
    /\ LegacyIdle
    /\ pc = "input"

\* the call read_lines(path) on a file of bytes raw: the file is opened
\* with encoding utf-8 only, and iterating it decodes it
ReadLines ==
    /\ pc = "input"
    /\ IF Utf8Valid(raw)
       THEN /\ readLines' = read_lines(Utf8Decode(raw))
            /\ readError' = "none"
            /\ pc' = "done"
       ELSE /\ readLines' = <<>>
            /\ readError' = "UnicodeDecodeError"
            /\ pc' = "raised"
    /\ UNCHANGED <<coreVars, scenario, raw, pairVars, cliVars, legacyVars>>

NextRead == ReadLines

SpecRead == InitRead /\ [][NextRead]_vars

(***************************************************************************)
(* Calls of normalize_line and lines_equal_norm.                           *)
(***************************************************************************)
\* the line of the docstring example of normalize_line, '  Hello World  ',
\* each word written as "a": two leading and two trailing spaces
DocstringLine == <<" ", " ", "a", " ", "a", " ", " ">>

InitNorm ==
    /\ lines1 = <<>>
    /\ lines2 = <<>>
    /\ scenario = Scenario("none", <<>>, 0)
    /\ opcodes = <<>>
    /\ blocks = <<>>
    /\ output = <<>>
    /\ line1 \in ListsUpTo(Chars, MaxNormLen) \cup {DocstringLine}
    /\ line2 = <<>>
    /\ tokens1 = <<>>
    /\ tokens2 = <<>>
    /\ tokOpcodes = <<>>
    /\ result = <<>>
    /\ annotated = <<>>
    /\ normalized = <<>>
    /\ renormalized = <<>>
    /\ equalNorm = FALSE
    /\ equalNormRev = FALSE
    /\ file1 = <<>>
    /\ file2 = <<>>
    /\ text = <<>>
    /\ ExtIdle
    /\ pc = "input"

\* the call normalize_line(line1)
NormalizeLine ==
    /\ pc = "input"
    /\ normalized' = normalize_line(line1)
    /\ pc' = "normalized"
    /\ UNCHANGED <<lineVars, annVars, scenario, renormalized, equalNorm,
                   equalNormRev, fileVars, extVars>>

\* the call normalize_line(normalized), on the result of the first call
NormalizeAgain ==
    /\ pc = "normalized"
    /\ renormalized' = normalize_line(normalized)
    /\ pc' = "renormalized"
    /\ UNCHANGED <<lineVars, annVars, scenario, normalized, equalNorm,
                   equalNormRev, fileVars, extVars>>

\* the calls lines_equal_norm(line1, l2) and lines_equal_norm(l2, line1)
CompareNorm ==
    /\ pc = "input"
    /\ \E l2 \in ListsUpTo(Chars, MaxOtherLen) \cup {line1} :
          /\ line2' = l2
          /\ equalNorm' = lines_equal_norm(line1, l2)
          /\ equalNormRev' = lines_equal_norm(l2, line1)
    /\ pc' = "compared"
    /\ UNCHANGED <<lineVars, line1, tokens1, tokens2, tokOpcodes, result,
                   annotated, scenario, normalized, renormalized, fileVars,
                   extVars>>

NextNorm ==
    \/ NormalizeLine
    \/ NormalizeAgain
    \/ CompareNorm

SpecNorm == InitNorm /\ [][NextNorm]_vars

(***************************************************************************)
(* Properties of diff_lines, checked under Spec.                           *)
(***************************************************************************)
Label(file) == file \o <<":", " ">>

PureInsertion(line) ==
    <<Separator, Label(FileA), Label(FileB) \o line, <<>>,
      Plus \o line \o Plus, <<>>>>

PureDeletion(line) ==
    <<Separator, Label(FileA) \o line, Label(FileB), <<>>,
      Minus \o line \o Minus, <<>>>>

NumSeparators == Cardinality({k \in 1..Len(output) : output[k] = Separator})

\* the six entries of the k-th block of the output, k = 0, 1, ...
OutputBlock(k) == SubSeq(output, 6 * k + 1, 6 * k + 6)

\* C1: if File B is File A with exactly one line x inserted, the output is
\* exactly one block, the pure insertion of a line that is x (up to
\* normalisation).
C1_InsertionIsolation ==
    (pc = "done" /\ scenario.kind = "insert") =>
        /\ NumSeparators = 1
        /\ \E j \in 1..Len(lines2) :
              /\ lines_equal_norm(lines2[j], scenario.x)
              /\ output = PureInsertion(lines2[j])

\* C2: if File B is File A with exactly one line removed, the output is
\* exactly one block, the pure deletion of a line equal (up to normalisation)
\* to the removed one.
C2_DeletionIsolation ==
    (pc = "done" /\ scenario.kind = "delete") =>
        /\ NumSeparators = 1
        /\ \E i \in 1..Len(lines1) :
              /\ lines_equal_norm(lines1[i], scenario.x)
              /\ output = PureDeletion(lines1[i])

\* C3: diff_lines(L, L) is the empty list and its alignment has Equal spans
\* only, for every L (the empty list and lists with repeated lines included).
C3_SelfDiffEmpty ==
    (pc = "done" /\ lines2 = lines1) =>
        /\ output = <<>>
        /\ \A k \in 1..Len(opcodes) : opcodes[k].tag = "equal"

C3_Witness ==
    /\ pc = "done"
    /\ scenario.kind = "self"
    /\ Len(lines1) >= 3
    /\ lines1[1] = lines1[3]
    /\ lines1[2] = <<"a", " ", " ", "b">>
    /\ output = <<>>

\* C4: if A and B have the same length and A[k], B[k] are equal after
\* normalisation for every k, diff_lines(A, B) is the empty list.
C4_WhitespaceQuantityInvariance ==
    (/\ pc = "done"
     /\ Len(lines1) = Len(lines2)
     /\ \A k \in 1..Len(lines1) : lines_equal_norm(lines1[k], lines2[k])) =>
        output = <<>>

C4_Witness ==
    /\ pc = "done"
    /\ scenario.kind = "respaced"
    /\ \E k \in 1..Len(lines1) : lines1[k] # lines2[k]
    /\ \E k \in 1..Len(lines1) : lines1[k] = lines2[k]
    /\ output = <<>>

InSpan(op, side, x) ==
    IF side = "A" THEN op.i1 <= x /\ x < op.i2 ELSE op.j1 <= x /\ x < op.j2

SpansOf(side, x) == {k \in 1..Len(opcodes) : InSpan(opcodes[k], side, x)}

InEqualSpan(side, x) ==
    \E k \in SpansOf(side, x) : opcodes[k].tag = "equal"

\* C5: every index of A and of B lies in exactly one alignment span; an
\* index outside the Equal spans is the File A (File B) line of exactly one
\* emitted block, an index inside an Equal span of none, and a block side
\* that carries no index is rendered empty.
C5_Coverage ==
    pc = "done" =>
        /\ Len(output) = 6 * Len(blocks)
        /\ \A i \in 0..(Len(lines1) - 1) :
              /\ Cardinality(SpansOf("A", i)) = 1
              /\ Cardinality({k \in 1..Len(blocks) : blocks[k].i = i})
                    = IF InEqualSpan("A", i) THEN 0 ELSE 1
        /\ \A j \in 0..(Len(lines2) - 1) :
              /\ Cardinality(SpansOf("B", j)) = 1
              /\ Cardinality({k \in 1..Len(blocks) : blocks[k].j = j})
                    = IF InEqualSpan("B", j) THEN 0 ELSE 1
        /\ \A k \in 1..Len(blocks) :
              /\ OutputBlock(k - 1)[2] =
                    IF blocks[k].i = NoIndex THEN Label(FileA)
                    ELSE Label(FileA) \o At(lines1, blocks[k].i)
              /\ OutputBlock(k - 1)[3] =
                    IF blocks[k].j = NoIndex THEN Label(FileB)
                    ELSE Label(FileB) \o At(lines2, blocks[k].j)

\* a Replace span with more B lines than A lines next to an Equal span
C5_Witness ==
    /\ pc = "done"
    /\ \E k \in 1..Len(opcodes) :
          /\ opcodes[k].tag = "replace"
          /\ opcodes[k].j2 - opcodes[k].j1 > opcodes[k].i2 - opcodes[k].i1
    /\ \E k \in 1..Len(opcodes) : opcodes[k].tag = "equal"
    /\ Len(output) = 6 * (Len(lines2) - 1)

SpanSize(op) ==
    IF op.tag = "equal" THEN 0
    ELSE IF op.i2 - op.i1 > op.j2 - op.j1 THEN op.i2 - op.i1
    ELSE op.j2 - op.j1

\* the number of blocks the opcodes before the k-th one account for
RECURSIVE BlocksBefore(_)
BlocksBefore(k) ==
    IF k <= 1 THEN 0 ELSE BlocksBefore(k - 1) + SpanSize(opcodes[k - 1])

\* C6: a Replace span A[i1:i2] / B[j1:j2] yields exactly max(i2-i1, j2-j1)
\* blocks: first the m = min(i2-i1, j2-j1) pairs A[i1+t] / B[j1+t] in order,
\* annotated by annotate_changes, then the leftover lines of the longer side
\* in order as pure deletions or pure insertions.
C6_ReplaceSpanPolicy ==
    pc = "done" =>
        /\ Len(output) = 6 * BlocksBefore(Len(opcodes) + 1)
        /\ \A k \in 1..Len(opcodes) :
              opcodes[k].tag = "replace" =>
                LET op == opcodes[k]
                    na == op.i2 - op.i1
                    nb == op.j2 - op.j1
                    m == IF na < nb THEN na ELSE nb
                    off == BlocksBefore(k)
                IN  \A t \in 0..(SpanSize(op) - 1) :
                       OutputBlock(off + t) =
                          IF t < m
                          THEN <<Separator,
                                 Label(FileA) \o At(lines1, op.i1 + t),
                                 Label(FileB) \o At(lines2, op.j1 + t),
                                 <<>>,
                                 annotate_changes(At(lines1, op.i1 + t),
                                                  At(lines2, op.j1 + t)),
                                 <<>>>>
                          ELSE IF na > nb
                          THEN PureDeletion(At(lines1, op.i1 + t))
                          ELSE PureInsertion(At(lines2, op.j1 + t))

\* a Replace span with more A lines than B lines, after an earlier block
C6_Witness ==
    /\ pc = "done"
    /\ \E k \in 2..Len(opcodes) :
          /\ opcodes[k].tag = "replace"
          /\ opcodes[k].i2 - opcodes[k].i1 > opcodes[k].j2 - opcodes[k].j1
          /\ opcodes[k].j2 - opcodes[k].j1 >= 1
    /\ Len(output) >= 12

\* length of a longest common subsequence of a and b
RECURSIVE LCS(_, _)
LCS(a, b) ==
    IF a = <<>> \/ b = <<>> THEN 0
    ELSE IF Head(a) = Head(b) THEN 1 + LCS(Tail(a), Tail(b))
    ELSE LET x == LCS(Tail(a), b)
             y == LCS(a, Tail(b))
         IN  IF x > y THEN x ELSE y

RECURSIVE EqualLines(_)
EqualLines(ops) ==
    IF ops = <<>> THEN 0
    ELSE (IF Head(ops).tag = "equal" THEN Head(ops).i2 - Head(ops).i1 ELSE 0)
         + EqualLines(Tail(ops))

\* C7: the Equal spans form a longest common subsequence of the normalised
\* sequences: the lines left outside Equal spans number
\* len(A) + len(B) - 2 * LCS(normalize(A), normalize(B)).
C7_MinimalAlignment ==
    pc = "done" =>
        Len(lines1) + Len(lines2) - 2 * EqualLines(opcodes)
            = Len(lines1) + Len(lines2)
              - 2 * LCS(NormalizeAll(lines1), NormalizeAll(lines2))

(***************************************************************************)
(* Properties of annotate_changes, checked under SpecAnn.                  *)
(***************************************************************************)
\* the returned string carries a '++' or '--' marker (the characters of the
\* checked lines are neither '+' nor '-')
HasMarker(str) == \E k \in 1..Len(str) : str[k] \in {"+", "-"}

IsSpaceToken(tok) == tok # <<>> /\ IsSpace(tok[1])

NormEqualRawDifferent ==
    pc = "done" /\ lines_equal_norm(line1, line2) /\ line1 # line2

\* C8 as stated: for two lines equal after normalisation and different in
\* raw whitespace, every whitespace token of line1 that differs from its
\* counterpart in line2 is rendered as '--tok--' and the counterpart as
\* '++tok++'; and the result has no marker only when the raw token sequences
\* are identical.
C8_Original ==
    /\ NormEqualRawDifferent =>
          \A k \in 1..Len(tokens1) :
              tokens1[k] # tokens2[k] =>
                  /\ Wrap(Minus, tokens1[k]) \in Range(result)
                  /\ Wrap(Plus, tokens2[k]) \in Range(result)
    /\ (pc = "done" /\ ~HasMarker(annotated)) => tokens1 = tokens2

\* C8 as amended: for two lines equal after normalisation and different in
\* raw whitespace, the result renders at least one whitespace token of line1
\* as '--tok--' and at least one whitespace token of line2 as '++tok++'; and
\* the result has no marker only when the raw token sequences are identical.
C8_NoShortCircuit ==
    /\ NormEqualRawDifferent =>
          /\ \E k \in 1..Len(tokens1) :
                /\ IsSpaceToken(tokens1[k])
                /\ Wrap(Minus, tokens1[k]) \in Range(result)
          /\ \E k \in 1..Len(tokens2) :
                /\ IsSpaceToken(tokens2[k])
                /\ Wrap(Plus, tokens2[k]) \in Range(result)
          /\ HasMarker(annotated)
    /\ (pc = "done" /\ ~HasMarker(annotated)) => tokens1 = tokens2

\* one space against two spaces between the same words
C8_Witness ==
    /\ pc = "done"
    /\ line1 = <<"a", " ", "a">>
    /\ line2 = <<"a", " ", " ", "a">>
    /\ result = <<<<"a">>, Wrap(Minus, <<" ">>), Wrap(Plus, <<" ", " ">>),
                  <<"a">>>>

RenderedSize(op) ==
    IF op.tag = "equal" \/ op.tag = "insert" THEN op.j2 - op.j1
    ELSE IF op.tag = "delete" THEN op.i2 - op.i1
    ELSE (op.i2 - op.i1) + (op.j2 - op.j1)

\* the number of rendered tokens the opcodes before the k-th one account for
RECURSIVE RenderedBefore(_)
RenderedBefore(k) ==
    IF k <= 1 THEN 0
    ELSE RenderedBefore(k - 1) + RenderedSize(tokOpcodes[k - 1])

\* C9: a token-level Replace span is rendered as all its line1 tokens, each
\* wrapped as '--tok--' and in order, immediately followed by all its line2
\* tokens, each wrapped as '++tok++' and in order.
C9_ReplaceRendering ==
    pc = "done" =>
        /\ Len(result) = RenderedBefore(Len(tokOpcodes) + 1)
        /\ annotated = Join(result)
        /\ \A k \in 1..Len(tokOpcodes) :
              tokOpcodes[k].tag = "replace" =>
                LET op == tokOpcodes[k]
                    na == op.i2 - op.i1
                    nb == op.j2 - op.j1
                    off == RenderedBefore(k)
                IN  /\ \A t \in 1..na :
                          result[off + t] =
                              Minus \o At(tokens1, op.i1 + t - 1) \o Minus
                    /\ \A t \in 1..nb :
                          result[off + na + t] =
                              Plus \o At(tokens2, op.j1 + t - 1) \o Plus

\* a Replace span of two tokens against two tokens
C9_Witness ==
    /\ pc = "done"
    /\ \E k \in 1..Len(tokOpcodes) :
          /\ tokOpcodes[k].tag = "replace"
          /\ tokOpcodes[k].i2 - tokOpcodes[k].i1 >= 2
          /\ tokOpcodes[k].j2 - tokOpcodes[k].j1 >= 2
    /\ Len(result) >= 4

\* C10: annotate_changes(x, x) = x, with no marker added, for every line x
\* (the empty line and lines with repeated tokens included).
C10_IdenticalLinesUnchanged ==
    (pc = "done" /\ line2 = line1) =>
        /\ annotated = line1
        /\ ~HasMarker(annotated)

\* a line whose first and third tokens are the same word
C10_Witness ==
    /\ pc = "done"
    /\ scenario.kind = "self"
    /\ Len(tokens1) >= 3
    /\ tokens1[1] = tokens1[3]
    /\ IsSpaceToken(tokens1[2])
    /\ annotated = line1

(***************************************************************************)
(* Properties of _tokenize.                                                *)
(***************************************************************************)
\* every character of the token has the same whitespace class
OneClass(tok) ==
    \A p, q \in 1..Len(tok) : IsSpace(tok[p]) = IsSpace(tok[q])

\* the number of characters of the first k tokens
RECURSIVE TokensLen(_, _)
TokensLen(toks, k) ==
    IF k = 0 THEN 0
    ELSE IF k = 1 THEN Len(toks[1])
    ELSE TokensLen(SubSeq(toks, 1, k \div 2), k \div 2)
         + TokensLen(SubSeq(toks, (k \div 2) + 1, k), k - (k \div 2))

\* toks are the maximal runs of line: non-empty, of one class each, of
\* alternating classes, and laid end to end they are the line
IsTokenisation(toks, line) ==
    /\ \A k \in 1..Len(toks) : toks[k] # <<>> /\ OneClass(toks[k])
    /\ \A k \in 1..(Len(toks) - 1) :
          IsSpace(toks[k][1]) # IsSpace(toks[k + 1][1])
    /\ TokensLen(toks, Len(toks)) = Len(line)
    /\ \A k \in 1..Len(toks) :
          toks[k] = SubSeq(line, TokensLen(toks, k - 1) + 1,
                                 TokensLen(toks, k))
    /\ (line = <<>> => toks = <<>>)

\* C11: for every line, _tokenize returns non-empty tokens, each of
\* whitespace only or of non-whitespace only, adjacent tokens alternate
\* between the two classes, and the tokens concatenated in order are the
\* line; the empty line yields the empty list.
C11_TokenisationLossless ==
    pc = "done" =>
        /\ IsTokenisation(tokens1, line1)
        /\ IsTokenisation(tokens2, line2)

\* a line that starts with a run of two different whitespace characters and
\* ends with whitespace, tokenised next to the empty line
C11_Witness ==
    /\ pc = "done"
    /\ line1 = <<" ", "\t", "a", " ">>
    /\ tokens1 = <<<<" ", "\t">>, <<"a">>, <<" ">>>>
    /\ line2 = <<>>
    /\ tokens2 = <<>>

(***************************************************************************)
(* Properties of normalize_line and lines_equal_norm.                      *)
(***************************************************************************)
\* the positions of line whose character has a counterpart in the normalised
\* line: every non-whitespace character and the first character of every
\* maximal run of whitespace
Kept(line) ==
    {k \in 1..Len(line) :
        ~IsSpace(line[k]) \/ k = 1 \/ ~IsSpace(line[k - 1])}

\* the position in the normalised line of the counterpart of position k
NormPos(line, k) == Cardinality({h \in Kept(line) : h <= k})

LeadingRun(line) ==
    Cardinality({k \in 1..Len(line) :
                     \A h \in 1..k : IsSpace(line[h])})

\* the number of whitespace characters line ends with
TrailingRun(line) ==
    Cardinality({k \in 1..Len(line) :
                     \A h \in k..Len(line) : IsSpace(line[h])})

\* C13: (docstring of normalize_line) only internal whitespace is
\* collapsed: the leading and the trailing spaces of a line that has a word
\* are returned as they are.
C13_LeadingTrailingPreserved ==
    (/\ pc = "normalized"
     /\ \E k \in 1..Len(line1) : ~IsSpace(line1[k])) =>
        /\ LeadingRun(normalized) = LeadingRun(line1)
        /\ TrailingRun(normalized) = TrailingRun(line1)
        /\ SubSeq(normalized, 1, LeadingRun(line1)) =
               SubSeq(line1, 1, LeadingRun(line1))

\* C14: normalize_line(normalize_line(x)) = normalize_line(x) for every
\* line x, and lines_equal_norm is reflexive, symmetric and transitive.
C14_IdempotentEquivalence ==
    /\ pc = "renormalized" => renormalized = normalized
    /\ pc = "compared" =>
          /\ line2 = line1 => equalNorm
          /\ equalNorm = equalNormRev
          /\ \A z \in ListsUpTo(Chars, MaxOtherLen) :
                (equalNorm /\ lines_equal_norm(line2, z)) =>
                    lines_equal_norm(line1, z)

\* a line whose whitespace runs are longer than one character, normalised
\* twice
C14_Witness ==
    /\ pc = "renormalized"
    /\ line1 = <<" ", " ", " ", "a", "\t">>
    /\ normalized = <<" ", "a", " ">>
    /\ renormalized = normalized

(***************************************************************************)
(* Properties of the output of diff_lines and of diff_files.               *)
(***************************************************************************)
\* C15: the list returned by diff_lines has a length that is a multiple of
\* six, and the entries of every block are, in order: '---'; 'File A: ' and
\* the original line (just 'File A: ' for a pure insertion); 'File B: ' and
\* the modified line (just 'File B: ' for a pure deletion); the empty
\* string; the marked line ('++' line '++' for a pure insertion, '--' line
\* '--' for a pure deletion, annotate_changes(lineA, lineB) for a pair); the
\* empty string.
C15_BlockLayout ==
    pc = "done" =>
        /\ Len(output) % 6 = 0
        /\ Len(output) = 6 * Len(blocks)
        /\ \A k \in 1..Len(blocks) :
              LET blk == blocks[k]
                  e == OutputBlock(k - 1)
              IN  /\ e[1] = <<"-", "-", "-">>
                  /\ e[4] = <<>>
                  /\ e[6] = <<>>
                  /\ blk.kind = "insert" =>
                        /\ blk.i = NoIndex
                        /\ e[2] = Label(FileA)
                        /\ e[3] = Label(FileB) \o At(lines2, blk.j)
                        /\ e[5] = Plus \o At(lines2, blk.j) \o Plus
                  /\ blk.kind = "delete" =>
                        /\ blk.j = NoIndex
                        /\ e[2] = Label(FileA) \o At(lines1, blk.i)
                        /\ e[3] = Label(FileB)
                        /\ e[5] = Minus \o At(lines1, blk.i) \o Minus
                  /\ blk.kind = "pair" =>
                        /\ e[2] = Label(FileA) \o At(lines1, blk.i)
                        /\ e[3] = Label(FileB) \o At(lines2, blk.j)
                        /\ e[5] = annotate_changes(At(lines1, blk.i),
                                                   At(lines2, blk.j))

\* an output with a pair, a pure deletion and a pure insertion
C15_Witness ==
    /\ pc = "done"
    /\ \A kind \in {"insert", "delete", "pair"} :
          \E k \in 1..Len(blocks) : blocks[k].kind = kind
    /\ Len(output) >= 18

\* C16: diff_lines([], B) is exactly len(B) blocks, block k being the pure
\* insertion of B[k]; diff_lines(A, []) is exactly len(A) pure-deletion
\* blocks in order; diff_lines([], []) is the empty list.
C16_EmptyAgainstNonEmpty ==
    pc = "done" =>
        /\ lines1 = <<>> =>
              /\ Len(output) = 6 * Len(lines2)
              /\ \A k \in 1..Len(lines2) :
                    OutputBlock(k - 1) = PureInsertion(lines2[k])
        /\ lines2 = <<>> =>
              /\ Len(output) = 6 * Len(lines1)
              /\ \A k \in 1..Len(lines1) :
                    OutputBlock(k - 1) = PureDeletion(lines1[k])
        /\ (lines1 = <<>> /\ lines2 = <<>>) => output = <<>>

\* the empty File A against a File B of three lines, not all the same
C16_Witness ==
    /\ pc = "done"
    /\ lines1 = <<>>
    /\ Len(lines2) = 3
    /\ lines2[1] # lines2[3]
    /\ Len(output) = 18
    /\ OutputBlock(2) = PureInsertion(lines2[3])

\* C17: the File A indexes of the blocks that carry a File A line are
\* strictly increasing through the output, and so are the File B indexes of
\* the blocks that carry a File B line.
C17_OrderPreservation ==
    pc = "done" =>
        /\ Len(output) = 6 * Len(blocks)
        /\ \A k \in 1..Len(blocks) :
              /\ blocks[k].i # NoIndex =>
                    OutputBlock(k - 1)[2] =
                        Label(FileA) \o At(lines1, blocks[k].i)
              /\ blocks[k].j # NoIndex =>
                    OutputBlock(k - 1)[3] =
                        Label(FileB) \o At(lines2, blocks[k].j)
        /\ \A k, h \in 1..Len(blocks) :
              k < h =>
                /\ (blocks[k].i # NoIndex /\ blocks[h].i # NoIndex) =>
                      blocks[k].i < blocks[h].i
                /\ (blocks[k].j # NoIndex /\ blocks[h].j # NoIndex) =>
                      blocks[k].j < blocks[h].j

\* blocks of two different spans, with at least two File A lines and two
\* File B lines among the blocks
C17_Witness ==
    /\ pc = "done"
    /\ Cardinality({k \in 1..Len(opcodes) : opcodes[k].tag # "equal"}) >= 2
    /\ Cardinality({k \in 1..Len(blocks) : blocks[k].i # NoIndex}) >= 2
    /\ Cardinality({k \in 1..Len(blocks) : blocks[k].j # NoIndex}) >= 2

\* the position in the joined text of the last character of entry k
RECURSIVE EntryEnd(_)
EntryEnd(k) ==
    IF k = 0 THEN 0 - 1 ELSE EntryEnd(k - 1) + 1 + Len(output[k])

\* C18: lines inside Equal spans contribute nothing to the output; when no
\* block differs diff_files returns the empty string, and otherwise the
\* block entries joined by single newlines, with nothing before, after or
\* in place of them.
C18_NoOutputForEqualContent ==
    pc = "done" =>
        /\ Len(output) = 6 * BlocksBefore(Len(opcodes) + 1)
        /\ \A k \in 1..Len(blocks) :
              /\ blocks[k].i # NoIndex => ~InEqualSpan("A", blocks[k].i)
              /\ blocks[k].j # NoIndex => ~InEqualSpan("B", blocks[k].j)
        /\ (\A k \in 1..Len(opcodes) : opcodes[k].tag = "equal") =>
              text = <<>>
        /\ file2 = file1 => text = <<>>
        /\ output # <<>> =>
              /\ Len(text) = EntryEnd(Len(output))
              /\ \A k \in 1..Len(output) :
                    SubSeq(text, EntryEnd(k - 1) + 2, EntryEnd(k)) =
                        output[k]
              /\ \A k \in 1..(Len(output) - 1) :
                    text[EntryEnd(k) + 1] = "\n"

\* two files of two lines that differ in whitespace quantity only
C18_Witness ==
    /\ pc = "done"
    /\ file2 # file1
    /\ Len(lines1) = 2
    /\ Len(lines2) = 2
    /\ lines1[2] # lines2[2]
    /\ \A k \in 1..Len(opcodes) : opcodes[k].tag = "equal"
    /\ text = <<>>

\* C20: inside every Replace span no A-line of the span is equal after
\* normalisation to any B-line of the span, so every pair handed to
\* annotate_changes has normalize_line(lineA) # normalize_line(lineB).
C20_NoAnnotateOnNormEqual ==
    pc = "done" =>
        /\ \A k \in 1..Len(opcodes) :
              opcodes[k].tag = "replace" =>
                \A i \in opcodes[k].i1..(opcodes[k].i2 - 1) :
                    \A j \in opcodes[k].j1..(opcodes[k].j2 - 1) :
                        ~lines_equal_norm(At(lines1, i), At(lines2, j))
        /\ \A k \in 1..Len(blocks) :
              blocks[k].kind = "pair" =>
                  normalize_line(At(lines1, blocks[k].i)) #
                      normalize_line(At(lines2, blocks[k].j))

\* a Replace span of two lines against two lines, after an Equal span
C20_Witness ==
    /\ pc = "done"
    /\ \E k \in 1..Len(opcodes) :
          /\ opcodes[k].tag = "replace"
          /\ opcodes[k].i2 - opcodes[k].i1 >= 2
          /\ opcodes[k].j2 - opcodes[k].j1 >= 2
    /\ \E k \in 1..Len(opcodes) : opcodes[k].tag = "equal"
    /\ \E k \in 1..Len(blocks) : blocks[k].kind = "pair"

(***************************************************************************)
(* Properties of the token alignment of annotate_changes.                  *)
(***************************************************************************)
\* C19: annotate_changes aligns the two raw token sequences with the method
\* diff_lines applies to the normalised lines (no popularity heuristic):
\* for all token sequences, a line2 of 200 tokens or more with a very
\* frequent token included, the token-level spans are those the line-level
\* matcher configuration produces on the same two sequences.
C19_SameAlignment ==
    pc = "done" => tokOpcodes = get_opcodes(tokens1, tokens2, FALSE)

(***************************************************************************)
(* Totality of the core.                                                   *)
(***************************************************************************)
\* str is a string: a finite sequence of characters
IsString(str) ==
    /\ DOMAIN str = 1..Len(str)
    /\ \A k \in 1..Len(str) : str[k] \in STRING

\* C21: normalize_line, _tokenize, annotate_changes and diff_lines return a
\* result and raise no error for every input: empty lists, empty lines,
\* whitespace-only lines and line lists of different lengths included.
C21_CoreIsTotal ==
    /\ pc # "raised"
    /\ pc = "done" =>
          /\ DOMAIN output = 1..Len(output)
          /\ \A k \in 1..Len(output) : IsString(output[k])
          /\ \A k \in 1..Len(blocks) :
                /\ blocks[k].i \in {NoIndex} \cup (0..(Len(lines1) - 1))
                /\ blocks[k].j \in {NoIndex} \cup (0..(Len(lines2) - 1))
          /\ \A a \in Range(lines1) \cup Range(lines2) :
                /\ IsString(normalize_line(a))
                /\ DOMAIN _tokenize(a) = 1..Len(_tokenize(a))
                /\ \A t \in 1..Len(_tokenize(a)) : IsString(_tokenize(a)[t])
          /\ \A a \in Range(lines1) : \A b \in Range(lines2) :
                IsString(annotate_changes(a, b))

\* a call on lists of different lengths, with an empty line and a
\* whitespace-only line, that pairs two lines
C21_Witness ==
    /\ pc = "done"
    /\ Len(lines1) # Len(lines2)
    /\ <<>> \in Range(lines1) \cup Range(lines2)
    /\ <<" ">> \in Range(lines1) \cup Range(lines2)
    /\ \E k \in 1..Len(blocks) : blocks[k].kind = "pair"

(***************************************************************************)
(* Properties of read_lines.                                               *)
(***************************************************************************)
\* the text of bytes read as latin-1 (for the bytes 0xA0..0xFF also their
\* text as cp1252): every byte is the character of that code point
Latin1Decode(bytes) == [k \in 1..Len(bytes) |-> Chr(bytes[k])]

\* C22: read_lines returns the decoded lines (trailing newline removed) of
\* a file whose bytes are not valid UTF-8 but are cp1252 or latin-1 text,
\* instead of raising an error.
C22_EncodingFallback ==
    (pc # "input" /\ ~Utf8Valid(raw)) =>
        /\ readError = "none"
        /\ readLines = read_lines(Latin1Decode(raw))

(***************************************************************************)
(* Properties of main.                                                     *)
(***************************************************************************)
\* the exception that ended the run of main, "none" if no call raised: the
\* failed read of the last file opened, or else the failed write
Raised ==
    IF reads = <<>> THEN "none"
    ELSE IF ReadRaises(fs, reads[Len(reads)]) # "none"
    THEN ReadRaises(fs, reads[Len(reads)])
    ELSE IF exitCode = 1 THEN "WriteError"
    ELSE "none"

\* C23: a failed comparison is reported under the kind of its cause: a
\* missing file as not-found, an unreadable file as a permission error, an
\* I/O or decoding failure as an I/O/decoding error (a decoding failure is
\* not reported as unexpected), anything else as an unexpected error; and
\* no file argument is read a second time.
C23_ErrorKindPerCause ==
    pc = "done" =>
        /\ Len(reads) <= 2
        /\ stderr.kind = "notfound" <=>
              (exitCode = 1 /\ reads = <<>>)
        /\ stderr.kind = "notfound" =>
              FileAt(fs, stderr.detail).kind = "missing"
        /\ Raised = "PermissionError" =>
              stderr = [kind |-> "io", detail |-> "PermissionError"]
        /\ Raised = "IsADirectoryError" =>
              stderr = [kind |-> "io", detail |-> "IsADirectoryError"]
        /\ Raised = "UnicodeDecodeError" => stderr.kind = "io"
        /\ stderr.kind = "unexpected" =>
              Raised \notin OSErrors \cup {"UnicodeDecodeError", "none"}

\* the combined value of a file argument is missing
Missing(named, positional) == FirstTruthy(named, positional) = None

\* the path a combined file argument names
PathOf(named, positional) == FirstTruthy(named, positional)[1]

Overriding(named, positional) == IF named # None THEN named ELSE positional

\* C25: for each of file1, file2 and output, when both a named and a
\* positional value are given, only the named value is used: the files
\* looked up and read are the named ones, the positional output file is
\* neither created nor written when -output is given, and the result is
\* printed to stdout only when no output path is given at all.
C25_NamedOverridesPositional ==
    pc = "done" =>
        LET f1 == Overriding(args.named_file1, args.file1)
            f2 == Overriding(args.named_file2, args.file2)
            out == Overriding(args.named_output, args.output)
        IN  /\ stderr.kind = "notfound" =>
                  stderr.detail \in {f1[1], f2[1]}
            /\ Len(reads) >= 1 => reads[1] = f1[1]
            /\ Len(reads) >= 2 => reads[2] = f2[1]
            /\ \A w \in RealPaths :
                  written[w] # None => out = Some(w)
            /\ stdout # <<>> => out = None

(***************************************************************************)
(* Properties of the positional engine of diff_engine.py.                  *)
(***************************************************************************)
\* C26: compare_files returns exactly max(len(file1), len(file2)) results
\* in line order, and every result at a position past the end of the
\* shorter file has is_identical = FALSE, whatever the extra line holds
\* (an empty or whitespace-only line included).
C26_ExtraLinesDiffer ==
    pc = "done" =>
        /\ Len(results) = Max({Len(file1_lines), Len(file2_lines)})
        /\ \A k \in 1..Len(results) :
              /\ k <= Len(file1_lines) =>
                    results[k].file1_line = file1_lines[k]
              /\ k <= Len(file2_lines) =>
                    results[k].file2_line = file2_lines[k]
              /\ (k > Len(file1_lines) \/ k > Len(file2_lines)) =>
                    results[k].is_identical = FALSE

\* the string str holds a marker made of the character m: 'mm ' followed,
\* after at least one character, by ' mm'
HasLegacyMarker(str, m) ==
    \E i \in 1..Len(str), j \in 1..Len(str) :
        /\ j >= i + 4
        /\ j + 2 <= Len(str)
        /\ str[i] = m /\ str[i + 1] = m /\ str[i + 2] = " "
        /\ str[j] = " " /\ str[j + 1] = m /\ str[j + 2] = m

\* C30: whenever compare_lines returns is_identical = FALSE, its
\* changes_line holds at least one '++ ... ++' or '-- ... --' marker (also
\* for lines of the same words in another multiplicity or order); and when
\* it returns is_identical = TRUE, changes_line equals line2, unmarked.
C30_EveryChangeMarked ==
    pc = "done" =>
        \A k \in 1..Len(results) :
            /\ results[k].is_identical = FALSE =>
                  (HasLegacyMarker(results[k].changes_line, "+")
                   \/ HasLegacyMarker(results[k].changes_line, "-"))
            /\ results[k].is_identical = TRUE =>
                  results[k].changes_line = results[k].file2_line

(***************************************************************************)
(* Completeness of detection, checked under SpecFiles.                     *)
(***************************************************************************)
\* the two line lists are equal position by position after normalisation
SameNormalised(l1, l2) ==
    /\ Len(l1) = Len(l2)
    /\ \A k \in 1..Len(l1) : normalize_line(l1[k]) = normalize_line(l2[k])

\* C28: diff_lines(A, B) is empty if and only if A and B have the same
\* length and normalize_line(A[k]) = normalize_line(B[k]) for every k;
\* whenever the normalised lists differ in length or at a position (an
\* added or removed empty line, a whitespace boundary introduced or
\* removed) at least one block is emitted.
C28_CompleteDetection ==
    pc = "done" =>
        /\ output = <<>> <=> SameNormalised(lines1, lines2)
        /\ ~SameNormalised(lines1, lines2) =>
              /\ Len(blocks) >= 1
              /\ Len(output) >= 6

\* a whitespace boundary is introduced in the only line and reported
C28_Witness ==
    /\ pc = "done"
    /\ lines1 = << <<"a", "a">> >>
    /\ lines2 = << <<"a", " ", "a">> >>
    /\ Len(blocks) = 1
    /\ blocks[1].kind = "pair"
    /\ output # <<>>

(***************************************************************************)
(* Properties of two calls of diff_lines, checked under SpecPair.          *)
(***************************************************************************)
\* the File A and File B entries of block k of an output out show the
\* lines of l1 and l2 the block blk refers to, as given
ShowsRaw(out, k, blk, l1, l2) ==
    /\ out[6 * (k - 1) + 2] =
          (IF blk.i = NoIndex THEN Label(FileA)
           ELSE Label(FileA) \o At(l1, blk.i))
    /\ out[6 * (k - 1) + 3] =
          (IF blk.j = NoIndex THEN Label(FileB)
           ELSE Label(FileB) \o At(l2, blk.j))

\* C29: two calls diff_lines(A, B) and diff_lines(A', B') on lists of the
\* same lengths whose lines are equal position by position after
\* normalisation emit the same number of blocks, their k-th blocks being
\* of the same kind and referring to the same line indexes; the File A and
\* File B text displayed is the raw line of each call, never its
\* normalised form.
C29_StructureFromNormalised ==
    (/\ pc = "done"
     /\ Len(otherLines1) = Len(lines1)
     /\ Len(otherLines2) = Len(lines2)
     /\ \A k \in 1..Len(lines1) :
           normalize_line(otherLines1[k]) = normalize_line(lines1[k])
     /\ \A k \in 1..Len(lines2) :
           normalize_line(otherLines2[k]) = normalize_line(lines2[k]))
    =>
        /\ Len(blocks) = Len(otherBlocks)
        /\ Len(output) = 6 * Len(blocks)
        /\ Len(otherOutput) = 6 * Len(otherBlocks)
        /\ \A k \in 1..Len(blocks) :
              /\ blocks[k].kind = otherBlocks[k].kind
              /\ blocks[k].i = otherBlocks[k].i
              /\ blocks[k].j = otherBlocks[k].j
              /\ ShowsRaw(output, k, blocks[k], lines1, lines2)
              /\ ShowsRaw(otherOutput, k, otherBlocks[k],
                          otherLines1, otherLines2)

\* the two calls emit a pair block whose File A line and File B line are
\* spelled differently in the two calls, and display different text
C29_Witness ==
    /\ pc = "done"
    /\ otherLines1 # lines1
    /\ otherLines2 # lines2
    /\ \E k \in 1..Len(blocks) :
          /\ blocks[k].kind = "pair"
          /\ At(lines1, blocks[k].i) # normalize_line(At(lines1, blocks[k].i))
          /\ At(otherLines1, blocks[k].i) # At(lines1, blocks[k].i)
          /\ At(otherLines2, blocks[k].j) # At(lines2, blocks[k].j)
    /\ output # otherOutput

(***************************************************************************)
(* The projections of the rendered token list, checked under SpecMarked.   *)
(***************************************************************************)
\* the item has the form of a token wrapped in the marker mm
IsWrapped(item, m) ==
    /\ Len(item) >= 5
    /\ item[1] = m /\ item[2] = m
    /\ item[Len(item) - 1] = m /\ item[Len(item)] = m

Unwrap(item) == SubSeq(item, 3, Len(item) - 2)

\* the items of a rendered token list after dropping every item wrapped in
\* the marker dropped and unwrapping every item wrapped in the marker kept
RECURSIVE Projection(_, _, _)
Projection(items, dropped, kept) ==
    IF items = <<>> THEN <<>>
    ELSE IF IsWrapped(Head(items), dropped)
    THEN Projection(Tail(items), dropped, kept)
    ELSE IF IsWrapped(Head(items), kept)
    THEN <<Unwrap(Head(items))>> \o Projection(Tail(items), dropped, kept)
    ELSE <<Head(items)>> \o Projection(Tail(items), dropped, kept)

\* the rendered token list of the call projects on the tokens of line2 and
\* on the tokens of line1
ProjectsOnBothLines ==
    /\ Projection(result, "-", "+") = _tokenize(line2)
    /\ Join(Projection(result, "-", "+")) = line2
    /\ Projection(result, "+", "-") = _tokenize(line1)
    /\ Join(Projection(result, "+", "-")) = line1

\* no token of the two lines of the call has itself the form of a marker
NoMarkerShapedToken ==
    /\ \A k \in 1..Len(tokens1) :
          ~IsWrapped(tokens1[k], "-") /\ ~IsWrapped(tokens1[k], "+")
    /\ \A k \in 1..Len(tokens2) :
          ~IsWrapped(tokens2[k], "-") /\ ~IsWrapped(tokens2[k], "+")

\* C27 as stated: for all lines line1 and line2, dropping every '--tok--'
\* item of the rendered token list of annotate_changes(line1, line2) and
\* unwrapping every '++tok++' item yields exactly the tokens of line2, and
\* dropping every '++tok++' item and unwrapping every '--tok--' item
\* yields exactly the tokens of line1.
C27_Original == pc = "done" => ProjectsOnBothLines

\* C27, amended: for all lines line1 and line2 none of whose tokens has
\* itself the form '--x--' or '++x++', the two projections of the rendered
\* token list yield exactly the tokens of line2 and the tokens of line1; no
\* token of either line is lost, duplicated or reordered.
C27_Projection ==
    (pc = "done" /\ NoMarkerShapedToken) => ProjectsOnBothLines

\* a call whose rendered list holds a kept token, a deleted token and an
\* added token, none of the tokens of the lines being marker-shaped
C27_Witness ==
    /\ pc = "done"
    /\ NoMarkerShapedToken
    /\ Len(tokens1) = 3
    /\ Len(tokens2) = 3
    /\ \E k \in 1..Len(result) : IsWrapped(result[k], "-")
    /\ \E k \in 1..Len(result) : IsWrapped(result[k], "+")
    /\ \E k \in 1..Len(result) : result[k] = <<"a">>

====
